---- MODULE Spec2Model ----
(***************************************************************************)
(* Rule execution pipeline of the static-analysis kernel.                  *)
(*                                                                         *)
(*  - javascript.rs : execute_rule / execute_rule_internal, one v8 isolate *)
(*    reused across invocations, with the watchdog thread that enforces    *)
(*    JAVASCRIPT_EXECUTION_TIMEOUT.                                        *)
(*  - analyze.rs    : get_lines_to_ignore and analyze_with.                *)
(*                                                                         *)
(* A rule's JavaScript is represented by what it does when run: whether it *)
(* compiles, the calls one visit() makes (addError / console.log), and how *)
(* visit() ends (returns, throws, or never returns).                       *)
(***************************************************************************)
EXTENDS Integers, Sequences, FiniteSets, TLC

VARIABLES
    pc,               \* position of the thread that called execute_rule
    inv,              \* arguments of the invocation in flight
    run,              \* outcome of compiled_script.run
    clock,            \* wall clock (ms) since the invocation started
    execs,            \* number of invocations started on this runtime
    result,           \* RuleResult returned by the last invocation
    stellaAllErrors,  \* isolate: the violation accumulator
    console,          \* isolate: the console buffer
    globals,          \* isolate: injected names defined on the global object
    terminating,      \* isolate: a terminate_execution request is pending
    wd,               \* position of the watchdog thread
    wdStart,          \* watchdog: `start`
    timeout_remaining,\* watchdog: `timeout_remaining`
    elapsed,          \* watchdog: `elapsed`
    done_flag,        \* the AtomicBool shared by the two threads
    token,            \* park token of the watchdog thread (set by unpark)
    timed_out,        \* value the watchdog thread returns to join
    res,              \* what execute_rule_internal returned to execute_rule
    first,            \* what the same call returned on the previous runtime
    anPc,             \* position of the thread that called analyze_with
    anInput,          \* arguments of analyze_with
    anLines,          \* analyze_with: `lines_to_ignore`
    anRuntime,        \* what runtime.execute_rule returned, rule by rule
    anResults,        \* RuleResults collected so far
    argPc,            \* position of the thread that called get_arguments
    argCall,          \* arguments of get_arguments, and the configuration
    argOut,           \* the map get_arguments returned
    genPc,            \* position of the thread that looks at a file's content
    genCall,          \* the function called, its content and language
    genOut,           \* the boolean it returned
    tplPc,            \* position of the script built from the template
    tplCall,          \* GLOBAL_nodes, GLOBAL_fileContext, GLOBAL_filename
    tplOut            \* the calls of visit it made and what they left

\* the thread in execute_rule, the isolate, the watchdog thread
callVars == << pc, inv, run, execs, result, res, first >>
isoVars  == << stellaAllErrors, console, globals, terminating >>
wdVars   == << wd, wdStart, timeout_remaining, elapsed, timed_out >>
syncVars == << done_flag, token >>

anVars   == << anPc, anInput, anLines, anRuntime, anResults >>
argVars  == << argPc, argCall, argOut >>
genVars  == << genPc, genCall, genOut >>
tplVars  == << tplPc, tplCall, tplOut >>

vars == << callVars, isoVars, wdVars, syncVars, clock, anVars, argVars, genVars,
          tplVars >>

----------------------------------------------------------------------------
(* Bounds of the model *)

MaxNodes == 2      \* match nodes handed to one invocation
MaxOps   == 1      \* calls made by one visit()
MaxExecs == 2      \* invocations on one runtime
MaxTicks == 3      \* clock advances observed during one invocation
TickMs   == 2500   \* granularity of the clock

----------------------------------------------------------------------------
(* Program constants *)

JAVASCRIPT_EXECUTION_TIMEOUT == 5000

ERROR_RULE_EXECUTION == "rule-execution-error"
ERROR_RULE_TIMEOUT   == "rule-timeout"

None == "<none>"

GlobalKeys == {"GLOBAL_nodes", "GLOBAL_fileContext", "GLOBAL_filename"}

EditKinds == {"ADD", "REMOVE", "UPDATE"}

----------------------------------------------------------------------------
(* Rules and their scripts *)

\* addError(buildError(l, .., "CRITICAL", "security").addFix(.. edit kind k ..))
AddError(l, k) ==
    [ op |-> "addError", line |-> l, edit |-> k, text |-> "",
      severity |-> "CRITICAL", category |-> "security" ]
ConsoleLog(t) ==
    [ op |-> "log", line |-> 0, edit |-> "", text |-> t,
      severity |-> "", category |-> "" ]

Ops == { AddError(1, "UPDATE"), AddError(2, "23232"), ConsoleLog("bla") }

SeqsUpTo(S, n) == UNION { [1..k -> S] : k \in 0..n }

RuleCodes ==
    { [compiles |-> TRUE, visit |-> b, ending |-> e] :
          b \in SeqsUpTo(Ops, MaxOps), e \in {"return", "throw", "loop"} }
    \cup { [compiles |-> FALSE, visit |-> << >>, ending |-> "return"] }

\* category and severity of the rules that are run: those of the rules of
\* the tests, which differ from what their scripts hand to buildError
RuleKinds == { [category |-> "CodeStyle", severity |-> "Notice"] }

Invocations ==
    { [ rule_name |-> "rs/r1", filename |-> "foo.py", code |-> c,
        match_nodes |-> n, log_output |-> l,
        category |-> k.category, severity |-> k.severity ] :
          c \in RuleCodes, n \in 0..MaxNodes, l \in BOOLEAN, k \in RuleKinds }

NoInvocation ==
    [ rule_name |-> None, filename |-> None,
      code |-> [compiles |-> FALSE, visit |-> << >>, ending |-> "return"],
      match_nodes |-> 0, log_output |-> FALSE,
      category |-> None, severity |-> None ]

\* what one call of visit() appends to the accumulator
VisitViolations(code) ==
    SelectSeq(code.visit, LAMBDA o : o.op = "addError")

\* what one call of visit() appends to the console buffer
VisitLines(code) ==
    LET logs == SelectSeq(code.visit, LAMBDA o : o.op = "log")
    IN  [i \in 1..Len(logs) |-> logs[i].text]

RECURSIVE Repeat(_, _)
Repeat(s, n) == IF n = 0 THEN << >> ELSE s \o Repeat(s, n - 1)

\* number of visit() calls the template's `for (const n of GLOBAL_nodes)`
\* makes before the script returns, throws or hangs
VisitsMade(i) ==
    IF i.match_nodes = 0 THEN 0
    ELSE IF i.code.ending = "return" THEN i.match_nodes ELSE 1

\* how the script ends when nothing terminates it
ScriptEnding(i) == IF i.match_nodes = 0 THEN "return" ELSE i.code.ending

----------------------------------------------------------------------------
(* The script runtime *)

\* _cleanExecute(fn): zeroes a buffer before the rule runs
CleanExecute(buffer) == << >>

\* the template without the _cleanExecute wrapper
js_code_errors_unwrapped(i, before) ==
    before \o Repeat(VisitViolations(i.code), VisitsMade(i))

\* the accumulator once the script built from the template has run as far
\* as it gets: `_cleanExecute(() => { ...; for (const n of GLOBAL_nodes)
\* { visit(n, ...) }; return stellaAllErrors; })`
js_code_errors(i, before) ==
    CleanExecute(before) \o Repeat(VisitViolations(i.code), VisitsMade(i))

\* the console buffer once that script has run as far as it gets
js_code_console(i, before) ==
    CleanExecute(before) \o Repeat(VisitLines(i.code), VisitsMade(i))

Ok(violations) ==
    [ok |-> TRUE, violations |-> violations, err |-> None, reason |-> None]

Err(kind, reason) ==
    [ok |-> FALSE, violations |-> << >>, err |-> kind, reason |-> reason]

\* the severity and category the script passed to buildError are kept
into_violation_asBuilt(v, severity, category) ==
    [ line |-> v.line, edit |-> v.edit,
      severity |-> v.severity, category |-> v.category ]

\* v.into_violation(rule.severity, rule.category)
into_violation(v, severity, category) ==
    [ line |-> v.line, edit |-> v.edit,
      severity |-> severity, category |-> category ]

\* a conversion failure reported as a thrown exception
ConvertViolations_asExecution(array, rule) ==
    IF \E k \in 1..Len(array) : array[k].edit \notin EditKinds
    THEN Err("Execution", "expected one of ADD, REMOVE, UPDATE")
    ELSE Ok([k \in 1..Len(array) |->
                 into_violation(array[k], rule.severity, rule.category)])

\* ViolationConverter::try_convert_from, then into_violation, over the
\* returned array
ConvertViolations(array, rule) ==
    IF \E k \in 1..Len(array) : array[k].edit \notin EditKinds
    THEN Err("UnexpectedReturnValue", "expected one of ADD, REMOVE, UPDATE")
    ELSE Ok([k \in 1..Len(array) |->
                 into_violation(array[k], rule.severity, rule.category)])

\* the lines joined by a space
RECURSIVE JoinLines_spaces(_)
JoinLines_spaces(lines) ==
    IF lines = << >> THEN ""
    ELSE IF Len(lines) = 1 THEN lines[1]
    ELSE lines[1] \o " " \o JoinLines_spaces(Tail(lines))

\* console_output.join("\n")
RECURSIVE JoinLines(_)
JoinLines(lines) ==
    IF lines = << >> THEN ""
    ELSE IF Len(lines) = 1 THEN lines[1]
    ELSE lines[1] \o "\n" \o JoinLines(Tail(lines))

NoResult ==
    [ rule_name |-> None, filename |-> None, violations |-> << >>,
      errors |-> << >>, execution_error |-> None, output |-> None ]

\* the console output attached before the outcome is looked at
RuleResultOf_outputAlways(i, r, console_output) ==
    [ rule_name |-> i.rule_name, filename |-> i.filename,
      violations |-> r.violations,
      errors |-> IF r.ok THEN << >>
                 ELSE << IF r.err = "ExecutionTimeout"
                         THEN ERROR_RULE_TIMEOUT ELSE ERROR_RULE_EXECUTION >>,
      execution_error |-> IF r.ok \/ r.err = "ExecutionTimeout"
                          THEN None ELSE r.reason,
      output |-> IF console_output # << >> /\ i.log_output
                 THEN JoinLines(console_output) ELSE None ]

\* execute_rule: the translation of Result<Vec<Violation>, ExecutionError>
\* and the drained console into a RuleResult
RuleResultOf(i, r, console_output) ==
    IF r.ok
    THEN [ rule_name |-> i.rule_name, filename |-> i.filename,
           violations |-> r.violations, errors |-> << >>,
           execution_error |-> None,
           output |-> IF console_output # << >> /\ i.log_output
                      THEN JoinLines(console_output) ELSE None ]
    ELSE [ rule_name |-> i.rule_name, filename |-> i.filename,
           violations |-> << >>,
           errors |-> << IF r.err = "ExecutionTimeout"
                         THEN ERROR_RULE_TIMEOUT ELSE ERROR_RULE_EXECUTION >>,
           execution_error |-> IF r.err = "ExecutionTimeout"
                               THEN None ELSE r.reason,
           output |-> None ]

\* the script's own outcome looked at before the watchdog's
AfterJoin_runFirst(watchdog_fired, r, returned, rule) ==
    IF r.outcome = "exception" THEN Err("Execution", "thrown")
    ELSE IF watchdog_fired THEN Err("ExecutionTimeout", None)
    ELSE ConvertViolations(returned, rule)

\* the `if timed_out` test left out
AfterJoin_noTimeoutTest(watchdog_fired, r, returned, rule) ==
    IF r.outcome # "value" THEN Err("Execution", "thrown")
    ELSE ConvertViolations(returned, rule)

\* what execute_rule_internal returns once the watchdog has been joined
AfterJoin(watchdog_fired, r, returned, rule) ==
    IF watchdog_fired THEN Err("ExecutionTimeout", None)
    ELSE IF r.outcome # "value" THEN Err("Execution", "thrown")
    ELSE ConvertViolations(returned, rule)

\* the globals left defined when execute_rule_internal returns `r`
GlobalsAfter(r, defined) ==
    IF r.ok THEN defined \ GlobalKeys ELSE defined

\* cancel_terminate_execution left out
CancelAfterJoin_never(watchdog_fired, pending) == pending

\* the terminate request left pending when execute_rule_internal returns
CancelAfterJoin(watchdog_fired, pending) ==
    IF watchdog_fired THEN FALSE ELSE pending

NoFirst == [result |-> NoResult, fired |-> FALSE]

NoRun == [outcome |-> "none", at |-> 0]

NoRes == Err(None, None)

----------------------------------------------------------------------------
(* The thread calling execute_rule *)

\* execute_rule up to the spawn of the watchdog; a script that does not
\* compile makes execute_rule_internal, then execute_rule, return at once
Invoke(i) ==
    /\ pc = "idle"
    /\ UNCHANGED << anVars, argVars, genVars, tplVars >>
    /\ execs < MaxExecs
    /\ execs' = execs + 1
    /\ inv' = i
    /\ clock' = 0
    /\ run' = NoRun
    /\ done_flag' = FALSE
    /\ token' = FALSE
    /\ timed_out' = FALSE
    /\ wdStart' = 0
    /\ timeout_remaining' = JAVASCRIPT_EXECUTION_TIMEOUT
    /\ elapsed' = 0
    /\ UNCHANGED << stellaAllErrors, terminating, first >>
    /\ IF i.code.compiles
       THEN /\ globals' = globals \cup GlobalKeys
            /\ wd' = "spawned"
            /\ pc' = "run"
            /\ res' = NoRes
            /\ result' = NoResult
            /\ UNCHANGED console
       ELSE /\ res' = Err("Interpreter", "SyntaxError")
            /\ globals' = GlobalsAfter(res', globals \cup GlobalKeys)
            /\ wd' = "none"
            /\ console' = << >>
            /\ result' = RuleResultOf(i, res', console)
            /\ pc' = "idle"

\* compiled_script.run enters the script
ScriptRun ==
    /\ pc = "run"
    /\ UNCHANGED << anVars, argVars, genVars, tplVars >>
    /\ ~terminating
    /\ stellaAllErrors' = js_code_errors(inv, stellaAllErrors)
    /\ console' = js_code_console(inv, console)
    /\ pc' = "running"
    /\ UNCHANGED << inv, run, execs, result, res, first, globals, terminating,
                    wdVars, syncVars, clock >>

\* the script returns its value or throws
ScriptEnd ==
    /\ pc = "running"
    /\ UNCHANGED << anVars, argVars, genVars, tplVars >>
    /\ ScriptEnding(inv) # "loop"
    /\ run' = [outcome |-> IF ScriptEnding(inv) = "return" THEN "value"
                           ELSE "exception",
               at |-> clock]
    /\ pc' = "ran"
    /\ UNCHANGED << inv, execs, result, res, first, isoVars, wdVars, syncVars,
                    clock >>

\* v8 honours a pending terminate request: run returns None
ScriptTerminated ==
    /\ pc \in {"run", "running"}
    /\ UNCHANGED << anVars, argVars, genVars, tplVars >>
    /\ terminating
    /\ terminating' = FALSE
    /\ run' = [outcome |-> "terminated", at |-> clock]
    /\ pc' = "ran"
    /\ UNCHANGED << inv, execs, result, res, first, stellaAllErrors, console,
                    globals, wdVars, syncVars, clock >>

\* done_flag.store(true, Ordering::Relaxed)
StoreDone ==
    /\ pc = "ran"
    /\ UNCHANGED << anVars, argVars, genVars, tplVars >>
    /\ done_flag' = TRUE
    /\ pc' = "stored"
    /\ UNCHANGED << inv, run, execs, result, res, first, isoVars, wdVars,
                    token, clock >>

\* timed_out.thread().unpark()
Unpark ==
    /\ pc = "stored"
    /\ UNCHANGED << anVars, argVars, genVars, tplVars >>
    /\ token' = TRUE
    /\ pc' = "join"
    /\ UNCHANGED << inv, run, execs, result, res, first, isoVars, wdVars,
                    done_flag, clock >>

\* timed_out.join(), the rest of execute_rule_internal, then execute_rule
\* drains the console and builds the RuleResult
Join ==
    /\ pc = "join"
    /\ UNCHANGED << anVars, argVars, genVars, tplVars >>
    /\ wd = "exited"
    /\ res' = AfterJoin(timed_out, run, stellaAllErrors, inv)
    /\ terminating' = CancelAfterJoin(timed_out, terminating)
    /\ globals' = GlobalsAfter(res', globals)
    /\ console' = << >>
    /\ result' = RuleResultOf(inv, res', console)
    /\ pc' = "idle"
    /\ UNCHANGED << inv, run, execs, first, stellaAllErrors, wdVars, syncVars,
                    clock >>

----------------------------------------------------------------------------
(* The watchdog thread *)

\* let start = Instant::now(); let mut timeout_remaining = timeout;
WdStart ==
    /\ wd = "spawned"
    /\ UNCHANGED << anVars, argVars, genVars, tplVars >>
    /\ wdStart' = clock
    /\ timeout_remaining' = JAVASCRIPT_EXECUTION_TIMEOUT
    /\ wd' = "parked"
    /\ UNCHANGED << callVars, isoVars, syncVars, elapsed, timed_out, clock >>

\* the budget never looked at
WatchdogVerdict_noDeadline(measured, done) ==
    IF done THEN "done" ELSE "park"

\* the branch the loop body takes after park_timeout returned
WatchdogVerdict(measured, done) ==
    IF measured > JAVASCRIPT_EXECUTION_TIMEOUT THEN "terminate"
    ELSE IF done THEN "done"
    ELSE "park"

\* the whole budget waited for again
TimeoutRemaining_fullBudget(measured) == JAVASCRIPT_EXECUTION_TIMEOUT

\* `timeout_remaining = timeout - elapsed`
TimeoutRemaining(measured) == JAVASCRIPT_EXECUTION_TIMEOUT - measured

\* park_timeout returns: the token was set, the time is up, or the wakeup
\* is spurious; `let elapsed = start.elapsed()`
WdWake ==
    /\ wd = "parked"
    /\ UNCHANGED << anVars, argVars, genVars, tplVars >>
    /\ token' = FALSE
    /\ elapsed' = clock - wdStart
    /\ wd' = "woken"
    /\ UNCHANGED << callVars, isoVars, wdStart, timeout_remaining, timed_out,
                    done_flag, clock >>

\* the rest of the loop body: terminate, leave, or park again
WdLoop ==
    /\ wd = "woken"
    /\ UNCHANGED << anVars, argVars, genVars, tplVars >>
    /\ LET verdict == WatchdogVerdict(elapsed, done_flag)
       IN  /\ terminating' = (terminating \/ verdict = "terminate")
           /\ timed_out' = (verdict = "terminate")
           /\ wd' = IF verdict = "park" THEN "parked" ELSE "exited"
           /\ timeout_remaining' =
                  IF verdict = "park" THEN TimeoutRemaining(elapsed)
                  ELSE timeout_remaining
    /\ UNCHANGED << callVars, stellaAllErrors, console, globals, wdStart,
                    elapsed, syncVars, clock >>

\* time passes while an invocation is in flight
Tick ==
    /\ pc \notin {"idle", "off"}
    /\ UNCHANGED << anVars, argVars, genVars, tplVars >>
    /\ clock < MaxTicks * TickMs
    /\ clock' = clock + TickMs
    /\ UNCHANGED << callVars, isoVars, wdVars, syncVars >>

\* a thread that has not analysed anything yet builds its own runtime
\* (thread_local DEFAULT_JS_RUNTIME); the same call is then made on it
NewRuntime ==
    /\ pc = "idle"
    /\ UNCHANGED << anVars, argVars, genVars, tplVars >>
    /\ execs = 1
    /\ first = NoFirst
    /\ first' = [result |-> result, fired |-> timed_out]
    /\ stellaAllErrors' = << >>
    /\ console' = << >>
    /\ globals' = {}
    /\ terminating' = FALSE
    /\ UNCHANGED << pc, inv, run, execs, result, res, wdVars, syncVars, clock >>

----------------------------------------------------------------------------
(* analyze.rs: text helpers.  A str is a sequence of characters. *)

NoDdSa == << "n", "o", "-", "d", "d", "-", "s", "a" >>
DatadogDisable ==
    << "d", "a", "t", "a", "d", "o", "g", "-", "d", "i", "s", "a", "b", "l", "e" >>

\* char::is_whitespace
IsWhitespace(c) == c \in {" ", "\t", "\n", "\r"}

\* str::contains
Contains(str, pat) ==
    \E k \in 0..(Len(str) - Len(pat)) : SubSeq(str, k + 1, k + Len(pat)) = pat

\* str::replace: every non-overlapping match, leftmost first
RECURSIVE Replace(_, _, _)
Replace(str, from, to) ==
    IF Len(str) < Len(from) \/ from = << >> THEN str
    ELSE IF SubSeq(str, 1, Len(from)) = from
         THEN to \o Replace(SubSeq(str, Len(from) + 1, Len(str)), from, to)
         ELSE << str[1] >> \o Replace(Tail(str), from, to)

\* str::split_whitespace
RECURSIVE SplitWhitespace(_, _)
SplitWhitespace(str, word) ==
    IF str = << >> THEN (IF word = << >> THEN << >> ELSE << word >>)
    ELSE IF IsWhitespace(str[1])
         THEN (IF word = << >> THEN << >> ELSE << word >>)
              \o SplitWhitespace(Tail(str), << >>)
         ELSE SplitWhitespace(Tail(str), Append(word, str[1]))

RECURSIVE SplitNewline(_, _)
SplitNewline(str, line) ==
    IF str = << >> THEN << line >>
    ELSE IF str[1] = "\n" THEN << line >> \o SplitNewline(Tail(str), << >>)
    ELSE SplitNewline(Tail(str), Append(line, str[1]))

\* str::lines: split at line feeds, a final empty line is not a line
Lines(code) ==
    LET pieces == SplitNewline(code, << >>)
    IN  IF pieces[Len(pieces)] = << >>
        THEN SubSeq(pieces, 1, Len(pieces) - 1) ELSE pieces

Elems(list) == { list[k] : k \in 1..Len(list) }

\* the lines one after the other
RECURSIVE JoinAll(_)
JoinAll(lines) == IF lines = << >> THEN << >> ELSE lines[1] \o JoinAll(Tail(lines))

----------------------------------------------------------------------------
(* analyze.rs: get_lines_to_ignore *)

Languages ==
    { "Python", "Starlark", "Dockerfile", "Ruby", "Terraform", "Yaml", "Bash",
      "JavaScript", "TypeScript", "Go", "Rust", "Csharp", "Java", "Kotlin",
      "Swift", "Json", "PHP" }

\* PHP given the list of Go
disabling_patterns_phpLineOnly(language) ==
    CASE language \in { "Python", "Starlark", "Dockerfile", "Ruby",
                        "Terraform", "Yaml", "Bash" } ->
             << << "#" >> \o NoDdSa, << "#" >> \o DatadogDisable >>
      [] language \in { "JavaScript", "TypeScript" } ->
             << << "/", "/" >> \o NoDdSa, << "/", "*" >> \o NoDdSa,
                << "/", "/" >> \o DatadogDisable, << "/", "*" >> \o DatadogDisable >>
      [] language = "Json" ->
             << << "i", "m", "p", "o", "s", "s", "i", "b", "l", "e", "s", "t",
                   "r", "i", "n", "g", "t", "o", "r", "e", "a", "c", "h" >> >>
      [] OTHER -> << << "/", "/" >> \o NoDdSa, << "/", "/" >> \o DatadogDisable >>

disabling_patterns(language) ==
    CASE language \in { "Python", "Starlark", "Dockerfile", "Ruby",
                        "Terraform", "Yaml", "Bash" } ->
             << << "#" >> \o NoDdSa, << "#" >> \o DatadogDisable >>
      [] language \in { "JavaScript", "TypeScript" } ->
             << << "/", "/" >> \o NoDdSa, << "/", "*" >> \o NoDdSa,
                << "/", "/" >> \o DatadogDisable, << "/", "*" >> \o DatadogDisable >>
      [] language \in { "Go", "Rust", "Csharp", "Java", "Kotlin", "Swift" } ->
             << << "/", "/" >> \o NoDdSa, << "/", "/" >> \o DatadogDisable >>
      [] language = "Json" ->
             << << "i", "m", "p", "o", "s", "s", "i", "b", "l", "e", "s", "t",
                   "r", "i", "n", "g", "t", "o", "r", "e", "a", "c", "h" >> >>
      [] language = "PHP" ->
             << << "/", "/" >> \o NoDdSa, << "/", "*" >> \o NoDdSa,
                << "/", "/" >> \o DatadogDisable, << "/", "*" >> \o DatadogDisable,
                << "#" >> \o NoDdSa, << "#" >> \o DatadogDisable >>

\* only the spaces taken out
line_without_whitespaces_spacesOnly(line) == SelectSeq(line, LAMBDA c : c # " ")

\* line.chars().filter(|c| !c.is_whitespace()).collect()
line_without_whitespaces(line) == SelectSeq(line, LAMBDA c : ~IsWhitespace(c))

\* commas left in place
parts_commasKept(line) ==
    LET r1 == Replace(line, << "/", "/" >>, << >>)
        r2 == Replace(r1, << "/", "*" >>, << >>)
        r3 == Replace(r2, << "*", "/" >>, << >>)
        r4 == Replace(r3, << "#" >>, << >>)
        r5 == Replace(r4, NoDdSa, << >>)
        r6 == Replace(r5, DatadogDisable, << >>)
        r7 == Replace(r6, << ":" >>, << >>)
    IN  SelectSeq(SplitWhitespace(r7, << >>), LAMBDA e : Contains(e, << "/" >>))

\* the rulesets/rules being referenced on the line
parts(line) ==
    LET r1 == Replace(line, << "/", "/" >>, << >>)
        r2 == Replace(r1, << "/", "*" >>, << >>)
        r3 == Replace(r2, << "*", "/" >>, << >>)
        r4 == Replace(r3, << "#" >>, << >>)
        r5 == Replace(r4, NoDdSa, << >>)
        r6 == Replace(r5, DatadogDisable, << >>)
        r7 == Replace(r6, << ":" >>, << >>)
        r8 == Replace(r7, << "," >>, << " " >>)
    IN  SelectSeq(SplitWhitespace(r8, << >>), LAMBDA e : Contains(e, << "/" >>))

\* HashMap::insert
MapInsert(map, key, value) ==
    [k \in (DOMAIN map) \cup {key} |-> IF k = key THEN value ELSE map[k]]

EmptyScan ==
    [ ignore_file_all_rules |-> FALSE, rules_to_ignore |-> << >>,
      lines_to_ignore_for_all_rules |-> << >>,
      lines_to_ignore_per_rules |-> << >> ]

\* a bare directive that suppresses its own line
Dispatch_sameLine(scan, ids, line_number) ==
    IF ids = << >>
    THEN IF line_number = 1
         THEN [scan EXCEPT !.ignore_file_all_rules = TRUE]
         ELSE [scan EXCEPT !.lines_to_ignore_for_all_rules = Append(@, line_number)]
    ELSE IF line_number = 1
         THEN [scan EXCEPT !.rules_to_ignore = @ \o ids]
         ELSE [scan EXCEPT !.lines_to_ignore_per_rules =
                               MapInsert(@, line_number + 1, ids)]

\* identifiers on line 1 scoped to line 2 only
Dispatch_perLineOnly(scan, ids, line_number) ==
    IF ids = << >>
    THEN IF line_number = 1
         THEN [scan EXCEPT !.ignore_file_all_rules = TRUE]
         ELSE [scan EXCEPT !.lines_to_ignore_for_all_rules = Append(@, line_number + 1)]
    ELSE [scan EXCEPT !.lines_to_ignore_per_rules =
                          MapInsert(@, line_number + 1, ids)]

\* a first line without identifiers handled like any other line
Dispatch_noFirstLine(scan, ids, line_number) ==
    IF ids = << >>
    THEN [scan EXCEPT !.lines_to_ignore_for_all_rules = Append(@, line_number + 1)]
    ELSE IF line_number = 1
         THEN [scan EXCEPT !.rules_to_ignore = @ \o ids]
         ELSE [scan EXCEPT !.lines_to_ignore_per_rules =
                               MapInsert(@, line_number + 1, ids)]

\* a directive without identifiers switches the whole file off wherever
\* it stands
Dispatch_anyLineFile(scan, ids, line_number) ==
    IF ids = << >>
    THEN IF line_number = 1
         THEN [scan EXCEPT !.ignore_file_all_rules = TRUE]
         ELSE [scan EXCEPT !.ignore_file_all_rules = TRUE,
                           !.lines_to_ignore_for_all_rules = Append(@, line_number + 1)]
    ELSE IF line_number = 1
         THEN [scan EXCEPT !.rules_to_ignore = @ \o ids]
         ELSE [scan EXCEPT !.lines_to_ignore_per_rules =
                               MapInsert(@, line_number + 1, ids)]

\* the body of `if line_without_whitespaces.contains(p)`
Dispatch(scan, ids, line_number) ==
    IF ids = << >>
    THEN IF line_number = 1
         THEN [scan EXCEPT !.ignore_file_all_rules = TRUE]
         ELSE [scan EXCEPT !.lines_to_ignore_for_all_rules = Append(@, line_number + 1)]
    ELSE IF line_number = 1
         THEN [scan EXCEPT !.rules_to_ignore = @ \o ids]
         ELSE [scan EXCEPT !.lines_to_ignore_per_rules =
                               MapInsert(@, line_number + 1, ids)]

\* the patterns of one line left as soon as one is found
RECURSIVE ScanPatterns_firstMatch(_, _, _, _, _)
ScanPatterns_firstMatch(scan, line, line_number, patterns, k) ==
    IF k > Len(patterns) THEN scan
    ELSE IF Contains(line_without_whitespaces(line), patterns[k])
         THEN Dispatch(scan, parts(line), line_number)
         ELSE ScanPatterns_firstMatch(scan, line, line_number, patterns, k + 1)

\* `for p in &disabling_patterns` on one line, from pattern k on
RECURSIVE ScanPatterns(_, _, _, _, _)
ScanPatterns(scan, line, line_number, patterns, k) ==
    IF k > Len(patterns) THEN scan
    ELSE ScanPatterns(
             IF Contains(line_without_whitespaces(line), patterns[k])
             THEN Dispatch(scan, parts(line), line_number) ELSE scan,
             line, line_number, patterns, k + 1)

\* `for line in code.lines()`, from line line_number on
RECURSIVE ScanLines(_, _, _, _)
ScanLines(scan, lines, line_number, patterns) ==
    IF line_number > Len(lines) THEN scan
    ELSE ScanLines(ScanPatterns(scan, lines[line_number], line_number, patterns, 1),
                   lines, line_number + 1, patterns)

AllRules == [kind |-> "AllRules", rules |-> << >>]
SomeRules(rules) == [kind |-> "SomeRules", rules |-> rules]

\* the flag set on line 1 not looked at
ignore_file_flagUnread(scan) == SomeRules(scan.rules_to_ignore)

\* `let ignore_file = if ignore_file_all_rules { .. } else { .. }`
ignore_file(scan) ==
    IF scan.ignore_file_all_rules THEN AllRules
    ELSE SomeRules(scan.rules_to_ignore)

get_lines_to_ignore(code, language) ==
    LET scan == ScanLines(EmptyScan, Lines(code), 1, disabling_patterns(language))
    IN  [ lines_to_ignore |-> scan.lines_to_ignore_for_all_rules,
          lines_to_ignore_per_rule |-> scan.lines_to_ignore_per_rules,
          ignore_file |-> ignore_file(scan) ]

\* LinesToIgnore::should_filter_rule
should_filter_rule(lines, rule, line) ==
    \/ lines.ignore_file.kind = "AllRules"
    \/ /\ lines.ignore_file.kind = "SomeRules"
       /\ rule \in Elems(lines.ignore_file.rules)
    \/ line \in Elems(lines.lines_to_ignore)
    \/ /\ line \in DOMAIN lines.lines_to_ignore_per_rule
       /\ rule \in Elems(lines.lines_to_ignore_per_rule[line])

----------------------------------------------------------------------------
(* generated_content.rs: is_generated_file and is_minified_file.  An       *)
(* element of a str is here a piece of ASCII text (one character, the     *)
(* text of a marker, a run of filler) or one non-ASCII character.  No     *)
(* marker is part of another one, and a marker cut short holds none, so   *)
(* `contains` is decided piece by piece.                                  *)

MAX_HEADER_SIZE == 400

PROTOBUF_HEADER == "Generated by the protocol buffer compiler.  DO NOT EDIT!"
THRIFT_HEADER   == "Autogenerated by Thrift Compiler"

\* every language given every marker
GeneratedMarkers_shared(language) ==
    { "Code generated by", PROTOBUF_HEADER, THRIFT_HEADER,
      "generated by the protocol buffer compiler", "Generated by PEG.js",
      "GENERATED CODE -- DO NOT EDIT!", "Generated protocol buffer code",
      "Generated by the gRPC Python protocol compiler plugin" }

GeneratedMarkers(language) ==
    CASE language = "Go" ->
             { "Code generated by", PROTOBUF_HEADER, THRIFT_HEADER }
      [] language = "Java" ->
             { "generated by the protocol buffer compiler", PROTOBUF_HEADER,
               THRIFT_HEADER }
      [] language \in { "JavaScript", "TypeScript" } ->
             { "Generated by PEG.js", "GENERATED CODE -- DO NOT EDIT!",
               THRIFT_HEADER }
      [] language = "Python" ->
             { "Generated protocol buffer code",
               "Generated by the gRPC Python protocol compiler plugin",
               "Code generated by", PROTOBUF_HEADER, THRIFT_HEADER }
      [] language = "Ruby" -> { PROTOBUF_HEADER, THRIFT_HEADER }
      [] OTHER -> {}

Min(a, b) == IF a < b THEN a ELSE b

\* two characters outside ASCII: U+00E9 (2 bytes in UTF-8), U+20AC (3 bytes)
EAcute == "U+00E9"
Euro   == "U+20AC"

NonAscii == { EAcute, Euro }

\* char::len_utf8, and the length of a piece of ASCII text
len_utf8(c) == IF c = EAcute THEN 2 ELSE IF c = Euro THEN 3 ELSE Len(c)

\* str::len: the length in bytes
RECURSIVE ByteLen(_)
ByteLen(str) ==
    IF str = << >> THEN 0 ELSE len_utf8(str[1]) + ByteLen(Tail(str))

\* str::is_char_boundary(n), for n <= str.len()
is_char_boundary(str, n) ==
    ~ \E k \in 1..Len(str) :
          /\ str[k] \in NonAscii
          /\ ByteLen(SubSeq(str, 1, k - 1)) < n
          /\ n < ByteLen(SubSeq(str, 1, k))

\* what is left of a piece of ASCII text cut short
Truncated == "<cut>"

\* &str[0..n] when n is a char boundary: the elements that end within the
\* first n bytes, then what is left of the piece cut at byte n
Slice(str, n) ==
    LET whole == { k \in 0..Len(str) : ByteLen(SubSeq(str, 1, k)) <= n }
        last  == CHOOSE k \in whole : \A j \in whole : j <= k
    IN  SubSeq(str, 1, last)
        \o (IF ByteLen(SubSeq(str, 1, last)) < n THEN << Truncated >> ELSE << >>)

\* full_content.get(0..size_to_analyze).unwrap_or(full_content): `get` is
\* None when size_to_analyze is not a char boundary
is_generated_file(full_content, language) ==
    LET size_to_analyze == Min(MAX_HEADER_SIZE, ByteLen(full_content))
        content == IF is_char_boundary(full_content, size_to_analyze)
                   THEN Slice(full_content, size_to_analyze)
                   ELSE full_content
    IN  \E m \in GeneratedMarkers(language) : Contains(content, << m >>)

\* `sum / count > 110` on usize: the quotient is rounded down
is_minified_file(content, language) ==
    IF language = "JavaScript"
    THEN LET lines == Lines(content)
             sum == ByteLen(JoinAll(lines))
         IN  IF Len(lines) = 0 THEN FALSE
             ELSE (sum \div Len(lines)) > 110
    ELSE FALSE

----------------------------------------------------------------------------
(* analyze.rs: analyze_with *)

MaxFileLines == 2   \* lines of the analysed file
MaxRules     == 2   \* rules handed to one analyze_with call

RuleR1 == << "r", "s", "/", "r", "1" >>
RuleR2 == << "r", "s", "/", "r", "2" >>

RuleNames == { RuleR1, RuleR2 }

\* lines the analysed files are made of
LineCode      == << "x" >>
LineBlank     == << " " >>
LinePyBare    == << "#", " " >> \o NoDdSa
LinePyRule    == << "#" >> \o NoDdSa \o << " " >> \o RuleR1
LineJsBare    == << "/", "/" >> \o NoDdSa
LineGenerated == << "#", THRIFT_HEADER >>

SampleLines ==
    { LineCode, LineBlank, LinePyBare, LinePyRule, LineJsBare, LineGenerated }

\* the text of a file made of the given lines
RECURSIVE JoinNewline(_)
JoinNewline(lines) ==
    IF lines = << >> THEN << >>
    ELSE IF Len(lines) = 1 THEN lines[1]
    ELSE lines[1] \o << "\n" >> \o JoinNewline(Tail(lines))

Codes == { JoinNewline(ls) : ls \in SeqsUpTo(SampleLines, MaxFileLines) \ { << >> } }

AnalysisInputs ==
    [ language : { "Python", "JavaScript" },
      rules : SeqsUpTo(RuleNames, MaxRules),
      filename : { "foo.py" },
      code : Codes,
      ignore_generated_files : BOOLEAN,
      log_output : BOOLEAN ]

NoInput ==
    [ language |-> None, rules |-> << >>, filename |-> None, code |-> << >>,
      ignore_generated_files |-> FALSE, log_output |-> FALSE ]

NoLines ==
    [ lines_to_ignore |-> << >>, lines_to_ignore_per_rule |-> << >>,
      ignore_file |-> SomeRules(<< >>) ]

Violation(s, e) == [start |-> [line |-> s], end |-> [line |-> e]]

\* Ok(ExecutionResult { violations, console_lines, .. })
ExecutionResult(violations, console_lines) ==
    [ ok |-> TRUE, violations |-> violations, console_lines |-> console_lines,
      err |-> None, reason |-> None ]

\* Err(DDSAJsRuntimeError)
DDSAJsRuntimeError(kind, reason) ==
    [ ok |-> FALSE, violations |-> << >>, console_lines |-> << >>,
      err |-> kind, reason |-> reason ]

\* JsRuntime::execute_rule: what one call may return
RuntimeOutcomes ==
    { ExecutionResult(<< Violation(3, 3), Violation(2, 3), Violation(1, 1) >>,
                      << "bla", "foo" >>),
      ExecutionResult(<< >>, << >>),
      DDSAJsRuntimeError("JavaScriptTimeout", None),
      DDSAJsRuntimeError("Execution", "thrown") }

\* a violation dropped when the line it ends on is suppressed
Retain_endLine(violations, lines, rule_name) ==
    SelectSeq(violations,
              LAMBDA v : ~should_filter_rule(lines, rule_name, v.end.line))

\* violations.retain(|v| !lines_to_ignore.should_filter_rule(rule.name, v.start.line))
Retain(violations, lines, rule_name) ==
    SelectSeq(violations,
              LAMBDA v : ~should_filter_rule(lines, rule_name, v.start.line))

\* the translation of Result<ExecutionResult, DDSAJsRuntimeError> into a
\* RuleResult
AnalyzeResultOf(in, lines, rule_name, r) ==
    IF r.ok
    THEN [ rule_name |-> rule_name, filename |-> in.filename,
           violations |-> Retain(r.violations, lines, rule_name),
           errors |-> << >>, execution_error |-> None,
           output |-> IF r.console_lines # << >> /\ in.log_output
                      THEN JoinLines(r.console_lines) ELSE None ]
    ELSE [ rule_name |-> rule_name, filename |-> in.filename,
           violations |-> << >>,
           errors |-> << IF r.err = "JavaScriptTimeout"
                         THEN ERROR_RULE_TIMEOUT ELSE ERROR_RULE_EXECUTION >>,
           execution_error |-> IF r.err = "JavaScriptTimeout"
                               THEN None ELSE r.reason,
           output |-> None ]

\* a collection that keeps the results of successful rules only
Collect_dropFailed(results, r) ==
    IF r.errors = << >> THEN Append(results, r) ELSE results

\* .map(..).collect(): the result of the rule just run joins the vector
Collect(results, r) == Append(results, r)

\* generated files skipped whatever the option says
ShouldSkip_always(in) == is_generated_file(in.code, in.language)

\* `analysis_option.ignore_generated_files && is_generated_file(code, language)`
ShouldSkip(in) ==
    in.ignore_generated_files /\ is_generated_file(in.code, in.language)

\* analyze_with up to the first rule: the generated-file gate, the
\* suppression comments, the parse of the file
AnalyzeWith(in, tree) ==
    /\ anPc = "idle"
    /\ anInput' = in @@ [ tree |-> IF ShouldSkip(in) THEN "not asked for"
                                    ELSE IF tree THEN "some" ELSE "none" ]
    /\ anRuntime' = << >>
    /\ anResults' = << >>
    /\ IF ShouldSkip(in)
       THEN anLines' = NoLines /\ anPc' = "skipped"
       ELSE /\ anLines' = get_lines_to_ignore(in.code, in.language)
            /\ anPc' = IF tree THEN "rules" ELSE "unparsed"
    /\ UNCHANGED << callVars, isoVars, wdVars, syncVars, clock, argVars, genVars, tplVars >>

\* the closure of `rules.into_iter().map(..)` applied to the next rule
AnalyzeRule(r) ==
    /\ anPc = "rules"
    /\ Len(anRuntime) < Len(anInput.rules)
    /\ anRuntime' = Append(anRuntime, r)
    /\ anResults' =
           Collect(anResults,
                   AnalyzeResultOf(anInput, anLines,
                                   anInput.rules[Len(anRuntime) + 1], r))
    /\ UNCHANGED << anPc, anInput, anLines >>
    /\ UNCHANGED << callVars, isoVars, wdVars, syncVars, clock, argVars, genVars, tplVars >>

\* the iterator is exhausted: analyze_with returns the vector
AnalyzeReturn ==
    /\ anPc = "rules"
    /\ Len(anRuntime) = Len(anInput.rules)
    /\ anPc' = "returned"
    /\ UNCHANGED << anInput, anLines, anRuntime, anResults >>
    /\ UNCHANGED << callVars, isoVars, wdVars, syncVars, clock, argVars, genVars, tplVars >>

----------------------------------------------------------------------------
(* get_lines_to_ignore applied to files written line by line.  A line is  *)
(* described by what was written on it, so that the identifiers put on a   *)
(* line are known apart from the text that is scanned.                     *)

MaxSourceLines == 2   \* lines of a scanned file

\* what follows the marker word: a colon or not, the identifiers and the
\* separator between them
TailBare   == [colon |-> FALSE, gap |-> << >>,      sep |-> << " " >>, ids |-> << >>]
TailColon  == [colon |-> TRUE,  gap |-> << "\t" >>, sep |-> << " " >>, ids |-> << RuleR1 >>]
TailSpaces == [colon |-> FALSE, gap |-> << " " >>,  sep |-> << " " >>,
               ids |-> << RuleR1, RuleR2 >>]
TailBoth   == [colon |-> FALSE, gap |-> << " " >>,  sep |-> << ",", " " >>,
               ids |-> << RuleR2, RuleR1 >>]
TailCommas == [colon |-> TRUE,  gap |-> << " " >>,  sep |-> << "," >>,
               ids |-> << RuleR1, RuleR2 >>]

Sentinel ==
    << "i", "m", "p", "o", "s", "s", "i", "b", "l", "e", "s", "t",
       "r", "i", "n", "g", "t", "o", "r", "e", "a", "c", "h" >>

Leads == { << "#" >>, << "/", "/" >>, << "/", "*" >> }

Directive(lead, word, tail) ==
    [kind |-> "directive", lead |-> lead, word |-> word, tail |-> tail]

\* a comment leader, a marker word and a tail
Directives ==
    { Directive(lead, NoDdSa, TailBare) : lead \in Leads }
    \cup { Directive(lead, DatadogDisable, TailColon) : lead \in Leads }
    \cup { Directive(lead, NoDdSa, TailBoth) : lead \in Leads }
    \cup { Directive(<< "/", "/" >>, NoDdSa, TailSpaces),
           Directive(<< "#" >>, DatadogDisable, TailCommas) }

PlainLine(text) ==
    [ kind |-> "plain", lead |-> << >>, word |-> text,
      tail |-> [colon |-> FALSE, gap |-> << >>, sep |-> << >>, ids |-> << >>] ]

\* `#no-dd-sa #datadog-disable rs/r1`: two markers on one line
TwoMarkers ==
    [ kind |-> "two", lead |-> << "#" >>, word |-> NoDdSa,
      tail |-> [colon |-> FALSE, gap |-> << >>, sep |-> << " " >>,
                ids |-> << RuleR1 >>] ]

\* `#no-dd-sa #datadog-disable`: two markers and no identifier
TwoMarkersBare ==
    [ kind |-> "two", lead |-> << "#" >>, word |-> NoDdSa, tail |-> TailBare ]

SourceLines ==
    Directives
    \cup { PlainLine(<< "x" >>), PlainLine(<< "a", " ", "/", " ", "b" >>),
           PlainLine(Sentinel), TwoMarkers, TwoMarkersBare }

RECURSIVE JoinWith(_, _)
JoinWith(list, sep) ==
    IF list = << >> THEN << >>
    ELSE IF Len(list) = 1 THEN list[1]
    ELSE list[1] \o sep \o JoinWith(Tail(list), sep)

\* the text of a line
Render(l) ==
    IF l.kind = "plain" THEN l.word
    ELSE l.tail.gap \o l.lead \o l.tail.gap \o l.word
         \o (IF l.kind = "two" THEN << " ", "#" >> \o DatadogDisable ELSE << >>)
         \o (IF l.tail.colon THEN << ":" >> ELSE << >>)
         \o (IF l.tail.ids # << >> /\ ~l.tail.colon THEN << " " >> ELSE << >>)
         \o JoinWith(l.tail.ids, l.tail.sep)
         \o (IF l.lead = << "/", "*" >> THEN << " ", "*", "/" >> ELSE << >>)

Sources == SeqsUpTo(SourceLines, MaxSourceLines) \ { << >> }

\* get_lines_to_ignore called on the text of `src`
GetLinesToIgnore(src, language) ==
    /\ anPc = "scan"
    /\ anInput' = [ language |-> language, src |-> src,
                    code |-> JoinNewline([k \in 1..Len(src) |-> Render(src[k])]) ]
    /\ anLines' = get_lines_to_ignore(anInput'.code, language)
    /\ anPc' = "scanned"
    /\ UNCHANGED << anRuntime, anResults >>
    /\ UNCHANGED << callVars, isoVars, wdVars, syncVars, clock, argVars, genVars, tplVars >>

----------------------------------------------------------------------------
(* get_lines_to_ignore applied to one directive line in which a space or  *)
(* a tab was inserted, or from which one was deleted.                      *)

\* the marker words in another letter case
NoDdSaUpper == << "N", "O", "-", "D", "D", "-", "S", "A" >>
DatadogDisableMixed ==
    << "D", "a", "t", "a", "d", "o", "g", "-", "d", "i", "s", "a", "b", "l", "e" >>

EditedLines ==
    Directives
    \cup { TwoMarkers, PlainLine(Sentinel), PlainLine(<< "x" >>),
           Directive(<< "#" >>, NoDdSaUpper, TailBare),
           Directive(<< "/", "/" >>, DatadogDisableMixed, TailColon) }

NoEdit == [op |-> "none", at |-> 0, ch |-> ""]

\* one whitespace character inserted anywhere, or one deleted
Edits(text) ==
    { NoEdit }
    \cup { [op |-> "insert", at |-> at, ch |-> ch] :
               at \in 0..Len(text), ch \in { " ", "\t" } }
    \cup { [op |-> "delete", at |-> at, ch |-> text[at]] :
               at \in { k \in 1..Len(text) : text[k] \in { " ", "\t" } } }

Edited(text, edit) ==
    CASE edit.op = "none" -> text
      [] edit.op = "insert" ->
             SubSeq(text, 1, edit.at) \o << edit.ch >>
             \o SubSeq(text, edit.at + 1, Len(text))
      [] edit.op = "delete" ->
             SubSeq(text, 1, edit.at - 1) \o SubSeq(text, edit.at + 1, Len(text))

\* get_lines_to_ignore called on a file whose line `at_line` is the edited
\* text of l; when that is line 2, line 1 is a line of code
GetLinesToIgnoreEdited(l, at_line, edit, language) ==
    /\ anPc = "scan"
    /\ anInput' =
           [ language |-> language,
             src |-> IF at_line = 1 THEN << l >> ELSE << PlainLine(<< "x" >>), l >>,
             edit |-> edit,
             code |-> (IF at_line = 1 THEN << >> ELSE << "x", "\n" >>)
                      \o Edited(Render(l), edit) ]
    /\ anLines' = get_lines_to_ignore(anInput'.code, language)
    /\ anPc' = "scanned"
    /\ UNCHANGED << anRuntime, anResults >>
    /\ UNCHANGED << callVars, isoVars, wdVars, syncVars, clock, argVars, genVars, tplVars >>

----------------------------------------------------------------------------
(* config_file.rs: ConfigFileArgumentProvider::get_arguments.  Paths and   *)
(* rule names are strings of characters; a map is a function.              *)

MaxDepth == 2   \* components of a file path

Slash == "/"

\* file paths: relative ones made of up to MaxDepth components, and their
\* absolute counterparts under `/a`
RelativePaths ==
    { JoinWith(cs, << Slash >>) :
          cs \in SeqsUpTo({ << "a" >>, << "b" >> }, MaxDepth) \ { << >> } }

Filenames ==
    RelativePaths \cup { << Slash >> \o r : r \in { q \in RelativePaths : q[1] = "a" } }

\* index of the last '/' of a string, 0 if it has none
LastSlash(str) ==
    LET K == { k \in 1..Len(str) : str[k] = Slash }
    IN  IF K = {} THEN 0 ELSE CHOOSE k \in K : \A j \in K : j <= k

\* Path::parent on a normalised path: None for "" and for "/"
HasParent(path) == path # << >> /\ path # << Slash >>

Parent(path) ==
    LET k == LastSlash(path)
    IN  IF k = 0 THEN << >>
        ELSE IF k = 1 THEN << Slash >>
        ELSE SubSeq(path, 1, k - 1)

\* index of the first '/' of a string, 0 if it has none
FirstSlash(str) ==
    LET K == { k \in 1..Len(str) : str[k] = Slash }
    IN  IF K = {} THEN 0 ELSE CHOOSE k \in K : \A j \in K : k <= j

\* name.split_once('/')
split_rule_name(name) ==
    LET k == FirstSlash(name)
    IN  IF k = 0 THEN [ruleset |-> << >>, short_name |-> name]
        ELSE [ ruleset |-> SubSeq(name, 1, k - 1),
               short_name |-> SubSeq(name, k + 1, Len(name)) ]

\* ArgumentValues { default_value, by_subtree }
ArgumentValues(default_value, by_subtree) ==
    [default_value |-> default_value, by_subtree |-> by_subtree]

\* the subtree lookup stopped at the file's own path
Lookup_fileOnly(arg_values, path, value) ==
    IF path \in DOMAIN arg_values.by_subtree
    THEN arg_values.by_subtree[path]
    ELSE value

\* the `loop` of filter_arguments, from `path` upwards
RECURSIVE Lookup(_, _, _)
Lookup(arg_values, path, value) ==
    IF path \in DOMAIN arg_values.by_subtree
    THEN arg_values.by_subtree[path]
    ELSE IF HasParent(path) THEN Lookup(arg_values, Parent(path), value)
    ELSE value

filter_arguments(arguments, filename) ==
    LET value(arg_name) ==
            Lookup(arguments[arg_name], filename, arguments[arg_name].default_value)
        resolved == { n \in DOMAIN arguments : value(n) # None }
    IN  [n \in resolved |-> value(n)]

\* the lookup made with the ruleset alone
get_arguments_anyRule(config, filename, rulename) ==
    LET name == split_rule_name(rulename)
    IN  IF name.ruleset \notin DOMAIN config.rulesets THEN << >>
        ELSE LET rules == config.rulesets[name.ruleset].rules
                 some == CHOOSE r \in DOMAIN rules : TRUE
             IN  IF DOMAIN rules = {} THEN << >>
                 ELSE filter_arguments(rules[some].arguments, filename)

get_arguments(config, filename, rulename) ==
    LET name == split_rule_name(rulename)
    IN  IF name.ruleset \notin DOMAIN config.rulesets THEN << >>
        ELSE IF name.short_name \notin DOMAIN config.rulesets[name.ruleset].rules
        THEN << >>
        ELSE filter_arguments(
                 config.rulesets[name.ruleset].rules[name.short_name].arguments,
                 filename)

\* the keys of the by_subtree maps of the configurations
SubtreeKeys == { << >>, << "a" >>, << "a", Slash, "b" >>, << Slash >> }

KeyName(key) ==
    CASE key = << >> -> ""
      [] key = << "a" >> -> "a"
      [] key = << "a", Slash, "b" >> -> "a/b"
      [] key = << Slash >> -> "/"

\* a by_subtree map with the given keys; each value tells its argument
\* and its key
Subtrees(arg_name, keys) == [k \in keys |-> arg_name \o "@" \o KeyName(k)]

\* ruleset `rs`: rule `r1` with arguments x and y, rule `r2` with argument z
ConfigFile(x, y) ==
    [ rulesets |->
        [ rs \in { << "r", "s" >> } |->
            [ rules |->
                [ r \in { << "r", "1" >>, << "r", "2" >> } |->
                    [ arguments |->
                        IF r = << "r", "1" >>
                        THEN [n \in { "x", "y" } |-> IF n = "x" THEN x ELSE y]
                        ELSE [n \in { "z" } |->
                                 ArgumentValues("z-default", << >>)] ] ] ] ] ]

ConfigFiles ==
    { ConfigFile(ArgumentValues(dx, Subtrees("x", kx)),
                 ArgumentValues(dy, Subtrees("y", ky))) :
          dx \in { None, "x-default" }, kx \in SUBSET SubtreeKeys,
          dy \in { None, "y-default" }, ky \in { {}, { << "a" >> } } }

\* rules asked for: two configured ones, one the ruleset does not have, one
\* of a ruleset that is not configured, one without a ruleset
RuleR3 == << "r", "s", "/", "r", "3" >>

AskedRules ==
    { RuleR1, RuleR2, RuleR3, << "z", "z", "/", "r", "1" >>, << "r", "1" >> }

NoCall == [config |-> [rulesets |-> << >>], filename |-> << >>, rulename |-> << >>]

\* one call of get_arguments
GetArguments(config, filename, rulename) ==
    /\ argPc = "idle"
    /\ argCall' = [config |-> config, filename |-> filename, rulename |-> rulename]
    /\ argOut' = get_arguments(config, filename, rulename)
    /\ argPc' = "returned"
    /\ UNCHANGED << callVars, isoVars, wdVars, syncVars, clock, anVars, genVars, tplVars >>

----------------------------------------------------------------------------
(* generated_content.rs applied to contents written piece by piece.  A    *)
(* content is described by the markers written in it and where, so that   *)
(* what lies within the header is known apart from the text inspected.    *)

MaxMinifiedLines == 2   \* lines of a content handed to is_minified_file

\* a run of n bytes of ASCII text
RECURSIVE Filler(_)
Filler(n) ==
    IF n = 0 THEN ""
    ELSE IF n % 2 = 1 THEN "x" \o Filler(n - 1)
    ELSE LET half == Filler(n \div 2) IN half \o half

\* texts written in comments: the markers, and one in another letter case
HeaderTexts ==
    { "Code generated by", PROTOBUF_HEADER, THRIFT_HEADER,
      "generated by the protocol buffer compiler", "Generated by PEG.js",
      "GENERATED CODE -- DO NOT EDIT!", "Generated protocol buffer code",
      "Generated by the gRPC Python protocol compiler plugin",
      "code generated by" }

\* where the second text of a content starts, and the non-ASCII character
\* written just before it
Layouts ==
    { [name |-> "short",         start |-> 0,   wide |-> None],
      [name |-> "ends at 400",   start |-> 0,   wide |-> None],
      [name |-> "cut at 400",    start |-> 395, wide |-> None],
      [name |-> "from 400",      start |-> 400, wide |-> None],
      [name |-> "2 bytes to 400", start |-> 400, wide |-> EAcute],
      [name |-> "3 bytes to 400", start |-> 400, wide |-> Euro],
      [name |-> "2 bytes over 400", start |-> 401, wide |-> EAcute],
      [name |-> "3 bytes over 400", start |-> 402, wide |-> Euro],
      [name |-> "3 bytes from 398", start |-> 401, wide |-> Euro] }

TextLen(t) == IF t = None THEN 0 ELSE Len(t)

\* the comment opened at the top of the content, with the first text
FirstComment(d) ==
    << "/", "/", " " >> \o (IF d.first = None THEN << >> ELSE << d.first >>)
    \o << "\n" >>

\* byte at which the second text of the content starts
SecondStart(d) ==
    CASE d.layout.name = "short" -> ByteLen(FirstComment(d))
      [] d.layout.name = "ends at 400" -> MAX_HEADER_SIZE - TextLen(d.second)
      [] OTHER -> d.layout.start

\* the text of a content
ContentOf(d) ==
    LET wide == IF d.layout.wide = None THEN << >> ELSE << d.layout.wide >>
        fill == SecondStart(d) - ByteLen(FirstComment(d)) - ByteLen(wide)
    IN  FirstComment(d)
        \o (IF fill = 0 THEN << >> ELSE << Filler(fill) >>)
        \o wide
        \o (IF d.second = None THEN << >> ELSE << d.second >>)
        \o << "\n", "x" >>

ContentDescriptors ==
    [ first : HeaderTexts \cup { None }, second : HeaderTexts \cup { None },
      layout : Layouts ]

NoContent ==
    [ fn |-> None, language |-> None, content |-> << >>,
      first |-> None, second |-> None,
      layout |-> [name |-> None, start |-> 0, wide |-> None],
      lengths |-> << >>, final_newline |-> FALSE ]

\* one call of is_generated_file
IsGeneratedFile(d, language) ==
    /\ genPc = "idle"
    /\ genCall' = [ NoContent EXCEPT !.fn = "is_generated_file",
                                     !.language = language,
                                     !.content = ContentOf(d),
                                     !.first = d.first, !.second = d.second,
                                     !.layout = d.layout ]
    /\ genOut' = is_generated_file(genCall'.content, language)
    /\ genPc' = "returned"
    /\ UNCHANGED << callVars, isoVars, wdVars, syncVars, clock, anVars, argVars,
                    tplVars >>

\* lengths of the lines of the contents handed to is_minified_file
LineLengths == { 0, 1, 110, 111, 112, 221 }

\* the text of a content whose lines have the given lengths
MinifiedContent(lengths, final_newline) ==
    JoinNewline([k \in 1..Len(lengths) |->
                     IF lengths[k] = 0 THEN << >> ELSE << Filler(lengths[k]) >>])
    \o (IF final_newline THEN << "\n" >> ELSE << >>)

\* the contents handed to is_minified_file: the last line may lack its
\* line feed when it is not empty
MinifiedInputs ==
    { in \in [ lengths : SeqsUpTo(LineLengths, MaxMinifiedLines),
               final_newline : BOOLEAN ] :
          IF in.lengths = << >> THEN ~in.final_newline
          ELSE in.lengths[Len(in.lengths)] > 0 \/ in.final_newline }

\* one call of is_minified_file
IsMinifiedFile(lengths, final_newline, language) ==
    /\ genPc = "idle"
    /\ genCall' = [ NoContent EXCEPT !.fn = "is_minified_file",
                                     !.language = language,
                                     !.content = MinifiedContent(lengths, final_newline),
                                     !.lengths = lengths,
                                     !.final_newline = final_newline ]
    /\ genOut' = is_minified_file(genCall'.content, language)
    /\ genPc' = "returned"
    /\ UNCHANGED << callVars, isoVars, wdVars, syncVars, clock, anVars, argVars,
                    tplVars >>

----------------------------------------------------------------------------

----------------------------------------------------------------------------
(* The script built from the template (javascript.rs 125-149) *)

\* keys of the objects the template merges: `code` is read back by the
\* template itself, `imports` stands for what a file-context builder adds
ContextKeys == {"code", "imports"}

NodeValues == {"a", "b"}
FileValues == {"F"}

\* a JavaScript object with some of the keys
Objects(values) == UNION { [keys -> values] : keys \in SUBSET ContextKeys }

Captures == {"n1", "n2"}

\* a serialised MatchNode: its capture and its `context` slot
MatchNodes ==
    { [capture |-> c, context |-> o] : c \in Captures, o \in Objects(NodeValues) }

\* `{...a, ...b}` with the operands taken the other way round
Spread_firstWins(a, b) ==
    [k \in DOMAIN a \cup DOMAIN b |-> IF k \in DOMAIN a THEN a[k] ELSE b[k]]

\* `{...a, ...b}`: the own keys of both, the later operand's value kept
Spread(a, b) ==
    [k \in DOMAIN a \cup DOMAIN b |-> IF k \in DOMAIN b THEN b[k] ELSE a[k]]

\* `if (Object.keys(GLOBAL_fileContext).length > 0) { n.context = ... }`
MergeContext(n, GLOBAL_fileContext) ==
    IF Cardinality(DOMAIN GLOBAL_fileContext) > 0
    THEN [n EXCEPT !.context = Spread(n.context, GLOBAL_fileContext)]
    ELSE n

\* `o.key`: undefined when the object has no such key
Member(o, key) == IF key \in DOMAIN o THEN o[key] ELSE None

\* the arguments of `visit(n, GLOBAL_filename, n.context.code)`
VisitArguments(n, GLOBAL_filename, GLOBAL_fileContext) ==
    LET merged == MergeContext(n, GLOBAL_fileContext)
    IN  [ node |-> merged, filename |-> GLOBAL_filename,
          code |-> Member(merged.context, "code") ]

NoCalls == [calls |-> << >>, violations |-> << >>, lines |-> << >>, threw |-> FALSE]

\* `for (const n of GLOBAL_nodes) { ...; visit(...) }` with a visit that
\* reports and logs the capture it is given and throws on one of them:
\* an exception leaves the loop
RECURSIVE ForOf(_, _, _, _)
ForOf(GLOBAL_nodes, GLOBAL_filename, GLOBAL_fileContext, throws_on) ==
    IF GLOBAL_nodes = << >> THEN NoCalls
    ELSE LET n == Head(GLOBAL_nodes)
             call == VisitArguments(n, GLOBAL_filename, GLOBAL_fileContext)
         IN  IF n.capture = throws_on
             THEN [ NoCalls EXCEPT !.calls = << call >>, !.threw = TRUE ]
             ELSE LET rest == ForOf(Tail(GLOBAL_nodes), GLOBAL_filename,
                                    GLOBAL_fileContext, throws_on)
                  IN  [ calls |-> << call >> \o rest.calls,
                        violations |-> << n.capture >> \o rest.violations,
                        lines |-> << n.capture >> \o rest.lines,
                        threw |-> rest.threw ]

NoTemplate ==
    [ nodes |-> << >>, filename |-> None, file_context |-> << >>,
      throws_on |-> None ]

\* a runtime on which execute_rule has not been called yet
InitExecute ==
    /\ pc = "idle"
    /\ anPc = "off"
    /\ argPc = "off"
    /\ genPc = "off"
    /\ tplPc = "off"

\* a thread about to call analyze_with
InitAnalyze ==
    /\ pc = "off"
    /\ anPc = "idle"
    /\ argPc = "off"
    /\ genPc = "off"
    /\ tplPc = "off"

\* nothing has been called yet
Fresh ==
    /\ tplCall = NoTemplate
    /\ tplOut = NoCalls
    /\ genCall = NoContent
    /\ genOut = FALSE
    /\ argCall = NoCall
    /\ argOut = << >>
    /\ anInput = NoInput
    /\ anLines = NoLines
    /\ anRuntime = << >>
    /\ anResults = << >>
    /\ inv = NoInvocation
    /\ run = NoRun
    /\ clock = 0
    /\ execs = 0
    /\ result = NoResult
    /\ res = NoRes
    /\ first = NoFirst
    /\ stellaAllErrors = << >>
    /\ console = << >>
    /\ globals = {}
    /\ terminating = FALSE
    /\ wd = "none"
    /\ wdStart = 0
    /\ timeout_remaining = JAVASCRIPT_EXECUTION_TIMEOUT
    /\ elapsed = 0
    /\ done_flag = FALSE
    /\ token = FALSE
    /\ timed_out = FALSE

Init == (InitExecute \/ InitAnalyze) /\ Fresh

Next ==
    \/ \E i \in Invocations : Invoke(i)
    \/ ScriptRun
    \/ ScriptEnd
    \/ ScriptTerminated
    \/ StoreDone
    \/ Unpark
    \/ Join
    \/ WdStart
    \/ WdWake
    \/ WdLoop
    \/ Tick
    \/ anPc = "idle" /\ \E in \in AnalysisInputs, tree \in BOOLEAN : AnalyzeWith(in, tree)
    \/ anPc = "rules" /\ \E r \in RuntimeOutcomes : AnalyzeRule(r)
    \/ AnalyzeReturn

Spec == Init /\ [][Next]_vars

\* a thread about to call get_lines_to_ignore
InitLines ==
    /\ pc = "off"
    /\ anPc = "scan"
    /\ argPc = "off"
    /\ genPc = "off"
    /\ tplPc = "off"
    /\ Fresh

NextLines ==
    anPc = "scan" /\
        \E src \in Sources, language \in Languages : GetLinesToIgnore(src, language)

SpecLines == InitLines /\ [][NextLines]_vars

NextWhitespace ==
    anPc = "scan" /\
        \E l \in EditedLines, at_line \in 1..2, language \in Languages :
            \E edit \in Edits(Render(l)) :
                GetLinesToIgnoreEdited(l, at_line, edit, language)

SpecWhitespace == InitLines /\ [][NextWhitespace]_vars

\* a thread about to call get_arguments
InitArguments ==
    /\ pc = "off"
    /\ anPc = "off"
    /\ argPc = "idle"
    /\ genPc = "off"
    /\ tplPc = "off"
    /\ Fresh

NextArguments ==
    argPc = "idle" /\
        \E config \in ConfigFiles, filename \in Filenames, rulename \in AskedRules :
            GetArguments(config, filename, rulename)

SpecArguments == InitArguments /\ [][NextArguments]_vars

----------------------------------------------------------------------------
(* Running the script built from the template *)

\* compiled_script.run on the globals set at javascript.rs 164-184
RunTemplate(match_nodes, file_context, throws_on) ==
    /\ tplPc = "idle"
    /\ tplCall' = [ nodes |-> match_nodes, filename |-> "foo.py",
                    file_context |-> file_context, throws_on |-> throws_on ]
    /\ tplOut' = ForOf(match_nodes, "foo.py", file_context, throws_on)
    /\ tplPc' = "returned"
    /\ UNCHANGED << callVars, isoVars, wdVars, syncVars, clock, anVars, argVars,
                    genVars >>

InitTemplate ==
    /\ pc = "off"
    /\ anPc = "off"
    /\ argPc = "off"
    /\ genPc = "off"
    /\ tplPc = "idle"
    /\ Fresh

NextTemplate ==
    tplPc = "idle" /\
        \E match_nodes \in SeqsUpTo(MatchNodes, MaxNodes),
           file_context \in Objects(FileValues),
           throws_on \in Captures \cup {None} :
            RunTemplate(match_nodes, file_context, throws_on)

SpecTemplate == InitTemplate /\ [][NextTemplate]_vars

\* a thread about to look at the content of a file
InitGenerated ==
    /\ pc = "off"
    /\ anPc = "off"
    /\ argPc = "off"
    /\ genPc = "idle"
    /\ tplPc = "off"
    /\ Fresh

NextGenerated ==
    \/ genPc = "idle" /\
           \E d \in ContentDescriptors, language \in Languages :
               IsGeneratedFile(d, language)
    \/ genPc = "idle" /\
           \E in \in MinifiedInputs, language \in Languages :
               IsMinifiedFile(in.lengths, in.final_newline, language)

SpecGenerated == InitGenerated /\ [][NextGenerated]_vars

\* the same call made twice, each time on a fresh runtime
NextTwice ==
    \/ \E i \in Invocations : execs = 0 /\ Invoke(i)
    \/ NewRuntime
    \/ first # NoFirst /\ Invoke(inv)
    \/ ScriptRun
    \/ ScriptEnd
    \/ ScriptTerminated
    \/ StoreDone
    \/ Unpark
    \/ Join
    \/ WdStart
    \/ WdWake
    \/ WdLoop
    \/ Tick

\* the thread that makes the two calls
InitTwice == Init /\ InitExecute

SpecTwice == InitTwice /\ [][NextTwice]_vars

\* the executor under the scheduling its threads can rely on: the clock
\* advances up to MaxTicks times after the watchdog was armed, so that the
\* deadline of a watchdog that started late is passed too
TickArmed ==
    /\ pc \notin {"idle", "off"}
    /\ UNCHANGED << anVars, argVars, genVars, tplVars >>
    /\ clock < wdStart + MaxTicks * TickMs
    /\ clock' = clock + TickMs
    /\ UNCHANGED << callVars, isoVars, wdVars, syncVars >>

\* park_timeout has to return: the token is set, or the time it was given,
\* counted from the clock reading that computed it, has run out
ParkOver ==
    token \/ clock - wdStart >= elapsed + timeout_remaining

\* the scripts of every ending, run on one match node
WatchedInvocations ==
    { i \in Invocations : i.match_nodes = 1 /\ i.log_output }

NextWatched ==
    \/ pc = "idle" /\ \E i \in WatchedInvocations : Invoke(i)
    \/ ScriptRun
    \/ ScriptEnd
    \/ ScriptTerminated
    \/ StoreDone
    \/ Unpark
    \/ Join
    \/ WdStart
    \/ WdWake
    \/ WdLoop
    \/ TickArmed

\* both threads keep running and time keeps passing; a spurious return of
\* park_timeout, and a further call of execute_rule, may never happen
Scheduling ==
    /\ WF_vars(ScriptRun)
    /\ WF_vars(ScriptEnd)
    /\ WF_vars(ScriptTerminated)
    /\ WF_vars(StoreDone)
    /\ WF_vars(Unpark)
    /\ WF_vars(Join)
    /\ WF_vars(WdStart)
    /\ WF_vars(WdLoop)
    /\ WF_vars(ParkOver /\ WdWake)
    /\ WF_vars(TickArmed)

InitWatched == InitExecute /\ Fresh

SpecWatched == InitWatched /\ [][NextWatched]_vars /\ Scheduling

----------------------------------------------------------------------------
(* Properties of execute_rule on a reused isolate *)

\* the last invocation has returned; inv, run, res, result describe it
Returned == pc = "idle" /\ execs > 0

\* time since the watchdog's start at which the script's run ended
RunElapsed == run.at - wdStart

\* the watchdog, at a wakeup, read more than the budget on its clock
\* (javascript.rs 208-209: the only place the budget is compared)
OverBudget ==
    /\ run.outcome # "none"
    /\ wd \in {"woken", "exited"}
    /\ elapsed > JAVASCRIPT_EXECUTION_TIMEOUT

\* what the script of invocation i hands back when it runs to its end
ExpectedViolations(i) ==
    LET made == Repeat(VisitViolations(i.code), VisitsMade(i))
    IN  [k \in 1..Len(made) |->
             [ line |-> made[k].line, edit |-> made[k].edit,
               severity |-> i.severity, category |-> i.category ]]

ExpectedLines(i) == Repeat(VisitLines(i.code), VisitsMade(i))

TimeoutShape(r) ==
    /\ r.violations = << >>
    /\ r.errors = << ERROR_RULE_TIMEOUT >>
    /\ r.execution_error = None
    /\ r.output = None

FailureShape(r) ==
    /\ r.violations = << >>
    /\ r.errors = << ERROR_RULE_EXECUTION >>
    /\ r.execution_error # None
    /\ r.output = None

SuccessShape(r) ==
    /\ r.errors = << >>
    /\ r.execution_error = None

C3_NoLeak ==
    /\ (pc \in {"running", "ran", "stored", "join"} /\ run.outcome # "terminated")
           => /\ stellaAllErrors = Repeat(VisitViolations(inv.code), VisitsMade(inv))
              /\ console = ExpectedLines(inv)
    /\ Returned
           => /\ result.violations \in { << >>, ExpectedViolations(inv) }
              /\ result.output \in { None, JoinLines(ExpectedLines(inv)) }

\* the second invocation did not compile while the accumulator still held
\* the violations of the first one; its RuleResult has none of them
C3_Witness ==
    /\ Returned
    /\ execs = 2
    /\ res.err = "Interpreter"
    /\ stellaAllErrors # << >>
    /\ result.violations = << >>

\* C4: no terminate request is pending once an invocation has returned, so
\* a script is only ever terminated after its own watchdog found the budget
\* exceeded.
C4_NoPendingTermination ==
    /\ pc = "idle" => ~terminating
    /\ run.outcome = "terminated" => OverBudget

\* the watchdog requested termination after the run had already returned;
\* the request was cancelled before the invocation returned
C4_Witness ==
    /\ Returned
    /\ timed_out
    /\ run.outcome = "value"
    /\ ~terminating

\* C5: after every invocation, whatever its outcome, none of GLOBAL_nodes,
\* GLOBAL_fileContext, GLOBAL_filename remains defined on the global object.
C5_GlobalsDeleted ==
    pc = "idle" => globals \cap GlobalKeys = {}

\* the RuleResult has one of the three shapes
OneOfThreeShapes(r) ==
    /\ Len(r.errors) <= 1
    /\ \/ SuccessShape(r)
       \/ FailureShape(r)
       \/ TimeoutShape(r)

\* C7: every RuleResult is a success (no error, no execution_error), an
\* execution failure (["rule-execution-error"], the engine's reason, no
\* violation, no output) or a timeout (["rule-timeout"], no execution_error,
\* no violation, no output); a failure never carries violations.
C7_ResultShapes ==
    /\ Returned =>
           /\ OneOfThreeShapes(result)
           /\ SuccessShape(result) <=> res.ok
           /\ TimeoutShape(result) <=> res.err = "ExecutionTimeout"
           /\ FailureShape(result) => result.execution_error = res.reason
    /\ anPc \in {"rules", "returned"} =>
           \A k \in 1..Len(anResults) :
               /\ OneOfThreeShapes(anResults[k])
               /\ SuccessShape(anResults[k]) <=> anRuntime[k].ok
               /\ TimeoutShape(anResults[k]) <=>
                      anRuntime[k].err = "JavaScriptTimeout"
               /\ FailureShape(anResults[k]) =>
                      anResults[k].execution_error = anRuntime[k].reason

\* the script accumulated a violation and logged, then threw: the result
\* carries neither
C7_Witness ==
    /\ Returned
    /\ res.err = "Execution"
    /\ stellaAllErrors # << >>
    /\ inv.log_output
    /\ FailureShape(result)

\* the array the script returns holds an element that does not convert
Malformed(i) ==
    \E k \in 1..Len(ExpectedViolations(i)) :
        ExpectedViolations(i)[k].edit \notin EditKinds

BothReturned == Returned /\ execs = 2 /\ first # NoFirst

\* C9 as stated: the same call made twice, each time on a fresh runtime,
\* yields the same violations, the same error kinds and the same output.
C9_Deterministic ==
    BothReturned =>
        /\ result.violations = first.result.violations
        /\ result.errors = first.result.errors
        /\ result.output = first.result.output

\* C9 amended: the two runs yield the same violations, error kinds and
\* output whenever the watchdog reached the same verdict in both.
C9_DeterministicAmended ==
    (BothReturned /\ first.fired = timed_out) =>
        /\ result.violations = first.result.violations
        /\ result.errors = first.result.errors
        /\ result.output = first.result.output

\* two successful runs, each reporting the violations of two visits
C9_Witness ==
    /\ BothReturned
    /\ ~first.fired
    /\ ~timed_out
    /\ Len(result.violations) = 2
    /\ result = first.result

----------------------------------------------------------------------------
(* analyze_with *)

Analysing == anPc \in {"rules", "returned"}

\* a violation of rule R starting on line L is filtered
Suppressed(lines, R, L) ==
    \/ lines.ignore_file = AllRules
    \/ /\ lines.ignore_file.kind = "SomeRules"
       /\ \E j \in 1..Len(lines.ignore_file.rules) : lines.ignore_file.rules[j] = R
    \/ \E j \in 1..Len(lines.lines_to_ignore) : lines.lines_to_ignore[j] = L
    \/ /\ L \in DOMAIN lines.lines_to_ignore_per_rule
       /\ \E j \in 1..Len(lines.lines_to_ignore_per_rule[L]) :
              lines.lines_to_ignore_per_rule[L][j] = R

\* C2: for every rule whose execution succeeds, the violations of its
\* RuleResult are the violations the script returned that are not filtered,
\* in the same relative order; only the start line of a violation counts.
C2_FilteredSubsequence ==
    Analysing =>
        \A k \in 1..Len(anResults) :
            anRuntime[k].ok =>
                anResults[k].violations =
                    SelectSeq(anRuntime[k].violations,
                              LAMBDA v : ~Suppressed(anLines, anInput.rules[k],
                                                     v.start.line))

\* of three returned violations the one starting on the suppressed line 3
\* is dropped, the one merely ending there is kept
C2_Witness ==
    /\ anPc = "returned"
    /\ \E k \in 1..Len(anResults) :
           /\ anRuntime[k].ok
           /\ Len(anRuntime[k].violations) = 3
           /\ anLines.lines_to_ignore = << 3 >>
           /\ anResults[k].violations = << Violation(2, 3), Violation(1, 1) >>

\* C6: when the file is not skipped and parses, analyze_with returns one
\* RuleResult per supplied rule, the i-th carrying the i-th rule's name and
\* the file's name, whatever happened to the rules before it.
C6_OneResultPerRule ==
    /\ Analysing =>
           /\ Len(anResults) = Len(anRuntime)
           /\ \A k \in 1..Len(anResults) :
                  /\ anResults[k].rule_name = anInput.rules[k]
                  /\ anResults[k].filename = anInput.filename
    /\ anPc = "returned" => Len(anResults) = Len(anInput.rules)

\* two rules, the first timed out, the second succeeded
C6_Witness ==
    /\ anPc = "returned"
    /\ anInput.rules = << RuleR2, RuleR1 >>
    /\ anRuntime[1].err = "JavaScriptTimeout"
    /\ anRuntime[2].ok
    /\ Len(anResults) = 2

\* the line holds a suppression marker of the language and no identifier
BareMarker(line, language) ==
    /\ \E k \in 1..Len(disabling_patterns(language)) :
           Contains(line_without_whitespaces(line), disabling_patterns(language)[k])
    /\ parts(line) = << >>

\* the first line that is not made of whitespace only, if any
FirstNonWhitespaceLine(code) ==
    LET ls == Lines(code)
        K  == { k \in 1..Len(ls) : line_without_whitespaces(ls[k]) # << >> }
    IN  IF K = {} THEN << >> ELSE ls[CHOOSE k \in K : \A j \in K : k <= j]

NoViolationReported ==
    \A k \in 1..Len(anResults) : anResults[k].violations = << >>

\* C10 as stated: a bare marker on the first non-whitespace line of the
\* file leaves every rule with zero violations.
C10_FirstNonWhitespaceLine ==
    ( /\ Analysing
      /\ BareMarker(FirstNonWhitespaceLine(anInput.code), anInput.language) )
        => NoViolationReported

\* C10: a bare marker on line 1 of the file leaves every rule with zero
\* violations, on whichever line the violations start.
C10_FirstLine ==
    ( /\ Analysing
      /\ Lines(anInput.code) # << >>
      /\ BareMarker(Lines(anInput.code)[1], anInput.language) )
        => NoViolationReported

\* line 1 is `# no-dd-sa`; the script returned violations on lines 1, 2
\* and 3 and none is reported
C10_Witness ==
    /\ anPc = "returned"
    /\ anInput.language = "Python"
    /\ Lines(anInput.code)[1] = LinePyBare
    /\ \E k \in 1..Len(anResults) :
           /\ anRuntime[k].ok
           /\ Len(anRuntime[k].violations) = 3
           /\ anResults[k].violations = << >>

\* C11: a line 1 holding a disabling pattern of the language and no rule
\* identifier makes get_lines_to_ignore return ignore_file = AllRules, and
\* every rule analysed on the file ends with zero violations, whatever the
\* rest of the file contains.
C11_AllRules ==
    ( /\ Analysing
      /\ Lines(anInput.code) # << >>
      /\ BareMarker(Lines(anInput.code)[1], anInput.language) )
        => /\ anLines.ignore_file = AllRules
           /\ NoViolationReported

\* a JavaScript file: `//no-dd-sa` on line 1, a directive naming one rule on
\* line 2; violations returned for lines 1, 2 and 3, none reported
C11_Witness ==
    /\ anPc = "returned"
    /\ anInput.language = "JavaScript"
    /\ Lines(anInput.code) = << LineJsBare, LinePyRule >>
    /\ anLines.ignore_file = AllRules
    /\ \E k \in 1..Len(anResults) :
           /\ anRuntime[k].ok
           /\ Len(anRuntime[k].violations) = 3
           /\ anResults[k].violations = << >>

----------------------------------------------------------------------------
(* get_lines_to_ignore *)

Scanned == anPc = "scanned"

\* the line holds a disabling pattern of the language
HasPattern(l, language) ==
    \E k \in 1..Len(disabling_patterns(language)) :
        Contains(line_without_whitespaces(Render(l)), disabling_patterns(language)[k])

\* lines after the first that hold a pattern and no identifier / some
BareLines ==
    { N \in 2..Len(anInput.src) :
          HasPattern(anInput.src[N], anInput.language)
          /\ anInput.src[N].tail.ids = << >> }

NamingLines ==
    { N \in 2..Len(anInput.src) :
          HasPattern(anInput.src[N], anInput.language)
          /\ anInput.src[N].tail.ids # << >> }

\* C12: for every line N > 1 holding a disabling pattern and no rule
\* identifier, N+1 is in lines_to_ignore, also when N is the last line;
\* lines_to_ignore holds no other line number, and not N itself.
C12_NextLine ==
    Scanned =>
        Elems(anLines.lines_to_ignore) = { N + 1 : N \in BareLines }

\* a bare directive on the last line of a two-line file: line 3, which the
\* file does not have, is recorded
C12_Witness ==
    /\ Scanned
    /\ Len(anInput.src) = 2
    /\ anInput.src[1] = PlainLine(<< "x" >>)
    /\ anInput.src[2] = Directive(<< "#" >>, NoDdSa, TailBare)
    /\ anInput.language = "Python"
    /\ anLines.lines_to_ignore = << 3 >>

\* C13: for every line N > 1 holding a disabling pattern and identifiers,
\* lines_to_ignore_per_rule[N+1] is the list of the identifiers written on
\* the line, in order, whatever separates them and with or without ':';
\* the map has no other key, and N+1 is not put in lines_to_ignore.
C13_PerRule ==
    Scanned =>
        /\ DOMAIN anLines.lines_to_ignore_per_rule = { N + 1 : N \in NamingLines }
        /\ \A N \in NamingLines :
               /\ anLines.lines_to_ignore_per_rule[N + 1] = anInput.src[N].tail.ids
               /\ (N + 1) \notin Elems(anLines.lines_to_ignore)

\* `#datadog-disable:rs/r1,rs/r2` on line 2
C13_Witness ==
    /\ Scanned
    /\ anInput.language = "Ruby"
    /\ Len(anInput.src) = 2
    /\ anInput.src[2] = Directive(<< "#" >>, DatadogDisable, TailCommas)
    /\ anLines.lines_to_ignore_per_rule[3] = << RuleR1, RuleR2 >>
    /\ anLines.lines_to_ignore = << >>

\* a list without its repetitions, first occurrences kept
RECURSIVE Dedup(_)
Dedup(list) ==
    IF list = << >> THEN << >>
    ELSE << list[1] >> \o Dedup(SelectSeq(Tail(list), LAMBDA e : e # list[1]))

LineScoped(R, L) ==
    \/ L \in Elems(anLines.lines_to_ignore)
    \/ /\ L \in DOMAIN anLines.lines_to_ignore_per_rule
       /\ R \in Elems(anLines.lines_to_ignore_per_rule[L])

\* C14: a line 1 holding a disabling pattern and identifiers makes
\* ignore_file SomeRules holding those identifiers in the order written;
\* violations of the listed rules are filtered on every line, violations
\* of any other rule only where a line-scoped directive applies.
C14_SomeRules ==
    ( /\ Scanned
      /\ HasPattern(anInput.src[1], anInput.language)
      /\ anInput.src[1].tail.ids # << >> )
        => /\ anLines.ignore_file.kind = "SomeRules"
           /\ Dedup(anLines.ignore_file.rules) = anInput.src[1].tail.ids
           /\ \A R \in RuleNames, L \in 1..(MaxSourceLines + 2) :
                  should_filter_rule(anLines, R, L) <=>
                      \/ R \in Elems(anInput.src[1].tail.ids)
                      \/ LineScoped(R, L)

\* `// datadog-disable:rs/r1` on line 1 of a Go file, a bare directive on
\* line 2: rs/r1 is filtered everywhere, rs/r2 on line 3 only
C14_Witness ==
    /\ Scanned
    /\ anInput.language = "Go"
    /\ anInput.src = << Directive(<< "/", "/" >>, DatadogDisable, TailColon),
                        Directive(<< "/", "/" >>, NoDdSa, TailBare) >>
    /\ anLines.ignore_file = SomeRules(<< RuleR1 >>)
    /\ should_filter_rule(anLines, RuleR1, 1)
    /\ ~should_filter_rule(anLines, RuleR2, 1)
    /\ should_filter_rule(anLines, RuleR2, 3)

HashLanguages ==
    { "Python", "Starlark", "Dockerfile", "Ruby", "Terraform", "Yaml", "Bash" }

SlashLanguages == { "Go", "Rust", "Csharp", "Java", "Kotlin", "Swift" }

\* the comment leaders of a language's markers: hash and `//` for PHP
StatedLeads(language) ==
    CASE language \in HashLanguages -> { << "#" >> }
      [] language \in SlashLanguages -> { << "/", "/" >> }
      [] language \in { "JavaScript", "TypeScript" } ->
             { << "/", "/" >>, << "/", "*" >> }
      [] language = "PHP" -> { << "#" >>, << "/", "/" >> }
      [] OTHER -> {}

\* the same with the `/*` forms for PHP as well
RecognisedLeads(language) ==
    IF language = "PHP" THEN Leads ELSE StatedLeads(language)

\* line N left a trace in LinesToIgnore
Contributes(N) ==
    IF N = 1
    THEN anLines.ignore_file # SomeRules(<< >>)
    ELSE \/ (N + 1) \in Elems(anLines.lines_to_ignore)
         \/ (N + 1) \in DOMAIN anLines.lines_to_ignore_per_rule

\* C15 as stated: a line is a suppression directive exactly when it holds
\* `no-dd-sa` or `datadog-disable` behind a comment leader of its language:
\* `#` for the hash-comment languages, `//` for Go, Rust, C#, Java, Kotlin
\* and Swift, `//` and `/*` for JavaScript and TypeScript, `#` and `//` for
\* PHP; any other line contributes nothing.
C15_StatedMarkers ==
    Scanned =>
        \A N \in 1..Len(anInput.src) :
            Contributes(N) <=>
                /\ anInput.src[N].kind # "plain"
                /\ anInput.src[N].lead \in StatedLeads(anInput.language)

\* C15: the same, with `#`, `//` and `/*` for PHP, and with the single
\* pattern `impossiblestringtoreach` for JSON.
C15_Markers ==
    Scanned =>
        \A N \in 1..Len(anInput.src) :
            Contributes(N) <=>
                \/ /\ anInput.src[N].kind # "plain"
                   /\ anInput.src[N].lead \in RecognisedLeads(anInput.language)
                \/ /\ anInput.language = "Json"
                   /\ anInput.src[N] = PlainLine(Sentinel)

\* a PHP file: `/* no-dd-sa */` on line 2 suppresses line 3, and the `#`
\* form on line 1 the whole file
C15_Witness ==
    /\ Scanned
    /\ anInput.language = "PHP"
    /\ anInput.src = << Directive(<< "#" >>, NoDdSa, TailBare),
                        Directive(<< "/", "*" >>, NoDdSa, TailBare) >>
    /\ anLines.ignore_file = AllRules
    /\ anLines.lines_to_ignore = << 3 >>

----------------------------------------------------------------------------
(* get_arguments *)

Resolved == argPc = "returned"

\* P is the path F or one of its ancestor directories
IsPrefixPath(P, F) ==
    \/ P = F
    \/ P = << >> /\ F # << >> /\ F[1] # Slash
    \/ P = << Slash >> /\ F # << >> /\ F[1] = Slash
    \/ /\ P # << >>
       /\ Len(P) < Len(F)
       /\ SubSeq(F, 1, Len(P)) = P
       /\ F[Len(P) + 1] = Slash

\* the arguments configured for exactly the rule asked for
ConfiguredFor(config, rulename) ==
    CASE rulename = RuleR1 ->
             config.rulesets[<< "r", "s" >>].rules[<< "r", "1" >>].arguments
      [] rulename = RuleR2 ->
             config.rulesets[<< "r", "s" >>].rules[<< "r", "2" >>].arguments
      [] OTHER -> << >>

\* the value an argument is expected to resolve to, None if to nothing
Expected(arg_values, F) ==
    LET K == { k \in DOMAIN arg_values.by_subtree : IsPrefixPath(k, F) }
    IN  IF K # {}
        THEN arg_values.by_subtree[CHOOSE k \in K : \A j \in K : Len(j) <= Len(k)]
        ELSE arg_values.default_value

\* C16: get_arguments(file, rule) holds, for each argument configured for
\* exactly that rule, the by_subtree value of the deepest path among the
\* file and its ancestors that has an entry, else the default value if
\* there is one; an argument with neither is left out, and a rule or
\* ruleset without configuration gets the empty map.
C16_GetArguments ==
    Resolved =>
        LET configured == ConfiguredFor(argCall.config, argCall.rulename)
        IN  /\ DOMAIN argOut =
                   { n \in DOMAIN configured :
                         Expected(configured[n], argCall.filename) # None }
            /\ \A n \in DOMAIN argOut :
                   argOut[n] = Expected(configured[n], argCall.filename)

\* rs/r1 on a/b: x has entries for "", "a" and "a/b" and resolves to the
\* deepest, y has no entry and no default and is left out
C16_Witness ==
    /\ Resolved
    /\ argCall.rulename = RuleR1
    /\ argCall.filename = << "a", Slash, "b" >>
    /\ DOMAIN argCall.config.rulesets[<< "r", "s" >>].rules[<< "r", "1" >>]
           .arguments["x"].by_subtree = { << >>, << "a" >>, << "a", Slash, "b" >> }
    /\ DOMAIN argOut = { "x" }
    /\ argOut["x"] = "x@a/b"

\* C17: argument lookup is monotone: every argument name present in
\* get_arguments(P1, rule) is present in get_arguments(P2, rule) whenever
\* P1 is P2 or an ancestor directory of P2.
C17_Monotone ==
    Resolved =>
        \A P1 \in Filenames \cup SubtreeKeys :
            IsPrefixPath(P1, argCall.filename) =>
                DOMAIN get_arguments(argCall.config, P1, argCall.rulename)
                    \subseteq DOMAIN argOut

\* x resolves at the directory a through the entry keyed a, there is no
\* default, and x is resolved at a/b as well
C17_Witness ==
    /\ Resolved
    /\ argCall.rulename = RuleR1
    /\ argCall.filename = << "a", Slash, "b" >>
    /\ DOMAIN argCall.config.rulesets[<< "r", "s" >>].rules[<< "r", "1" >>]
           .arguments["x"].by_subtree = { << "a" >> }
    /\ argCall.config.rulesets[<< "r", "s" >>].rules[<< "r", "1" >>]
           .arguments["x"].default_value = None
    /\ "x" \in DOMAIN get_arguments(argCall.config, << "a" >>, argCall.rulename)
    /\ argOut["x"] = "x@a"

----------------------------------------------------------------------------
(* analyze_with: skipped files; console output; violations *)

Called == anPc \in {"skipped", "unparsed", "rules", "returned"}

\* one of the first lines of the file is the header of a generated file
GeneratedHeader ==
    \E k \in 1..Len(Lines(anInput.code)) : Lines(anInput.code)[k] = LineGenerated

RECURSIVE NewlineJoined(_, _)
NewlineJoined(lines, k) ==
    IF k = 0 THEN ""
    ELSE IF k = 1 THEN lines[1]
    ELSE NewlineJoined(lines, k - 1) \o "\n" \o lines[k]

\* C19: RuleResult.output is present iff the execution succeeded,
\* log_output is enabled and the script logged at least one line during
\* that execution; it is then the logged lines joined by newline, in
\* logging order.
C19_Output ==
    /\ Returned =>
           /\ result.output # None <=>
                  (res.ok /\ inv.log_output /\ ExpectedLines(inv) # << >>)
           /\ result.output # None =>
                  result.output =
                      NewlineJoined(ExpectedLines(inv), Len(ExpectedLines(inv)))
    /\ Analysing =>
           \A k \in 1..Len(anResults) :
               /\ anResults[k].output # None <=>
                      /\ anRuntime[k].ok
                      /\ anInput.log_output
                      /\ anRuntime[k].console_lines # << >>
               /\ anResults[k].output # None =>
                      anResults[k].output =
                          NewlineJoined(anRuntime[k].console_lines,
                                        Len(anRuntime[k].console_lines))

\* the script logged "bla" then "foo"
C19_Witness ==
    /\ anPc = "returned"
    /\ anInput.log_output
    /\ \E k \in 1..Len(anResults) :
           /\ anRuntime[k].console_lines = << "bla", "foo" >>
           /\ anResults[k].output = "bla\nfoo"

\* C20: every violation of a RuleResult carries the category and the
\* severity of the rule, whatever the script passed to buildError.
C20_RuleCategorySeverity ==
    Returned =>
        \A k \in 1..Len(result.violations) :
            /\ result.violations[k].category = inv.category
            /\ result.violations[k].severity = inv.severity

\* the script reported a violation built with "CRITICAL" and "security";
\* the rule is a CodeStyle rule of severity Notice
C20_Witness ==
    /\ Returned
    /\ res.ok
    /\ Len(result.violations) = 2
    /\ stellaAllErrors[1].severity = "CRITICAL"
    /\ stellaAllErrors[1].category = "security"
    /\ result.violations[1].severity = "Notice"
    /\ result.violations[1].category = "CodeStyle"

----------------------------------------------------------------------------
(* generated_content.rs: the header that is inspected, the markers, the  *)
(* average line length                                                     *)

Asked(fn) == genPc = "returned" /\ genCall.fn = fn

\* the texts that trigger a positive result, language by language
ListedMarkers ==
    ({ "Go", "Java", "JavaScript", "Python", "Ruby", "TypeScript" }
         \X { THRIFT_HEADER })
    \cup ({ "Go", "Java", "Python", "Ruby" } \X { PROTOBUF_HEADER })
    \cup ({ "Go", "Python" } \X { "Code generated by" })
    \cup ({ "Java" } \X { "generated by the protocol buffer compiler" })
    \cup ({ "JavaScript", "TypeScript" }
              \X { "Generated by PEG.js", "GENERATED CODE -- DO NOT EDIT!" })
    \cup ({ "Python" }
              \X { "Generated protocol buffer code",
                   "Generated by the gRPC Python protocol compiler plugin" })

\* the texts written wholly within the first MAX_HEADER_SIZE bytes
WrittenInHeader ==
    { genCall.first }
    \cup (IF SecondStart(genCall) + TextLen(genCall.second) <= MAX_HEADER_SIZE
          THEN { genCall.second } ELSE { })

\* the texts written anywhere in the content
Written == { genCall.first, genCall.second }

\* C21: is_generated_file inspects only the first min(400, length) bytes:
\* a marker that lies wholly or partly beyond byte 400 never produces a
\* positive result, also when a multi-byte character lies around byte 400.
C21_HeaderOnly ==
    Asked("is_generated_file") =>
        (genOut => \E t \in WrittenInHeader :
                       << genCall.language, t >> \in ListedMarkers)

\* the header alone decides when byte 400 is a character boundary
HeaderOnlyOnBoundary ==
    Asked("is_generated_file")
    /\ genCall.layout.name \notin
           { "2 bytes over 400", "3 bytes over 400", "3 bytes from 398" } =>
        (genOut <=> \E t \in WrittenInHeader :
                        << genCall.language, t >> \in ListedMarkers)

\* C30: for a content of at most 400 bytes, is_generated_file is true iff
\* the language is one of Go, Java, JavaScript, Python, Ruby, TypeScript
\* and the content holds a marker of that language's own list; every other
\* language yields false, and a marker of another language's list does
\* not trigger.
C30_OwnMarkers ==
    Asked("is_generated_file") /\ genCall.layout.name = "short" =>
        /\ ByteLen(genCall.content) <= MAX_HEADER_SIZE
        /\ genOut <=> \E t \in Written :
                          << genCall.language, t >> \in ListedMarkers
        /\ genCall.language \notin
               { "Go", "Java", "JavaScript", "Python", "Ruby", "TypeScript" }
               => ~genOut

\* a Java file that holds markers of the lists of Go and JavaScript only
C30_Witness ==
    /\ Asked("is_generated_file")
    /\ genCall.layout.name = "short"
    /\ genCall.language = "Java"
    /\ genCall.first = "Code generated by"
    /\ genCall.second = "Generated by PEG.js"
    /\ ~genOut

Sum(lengths) == ByteLen([k \in 1..Len(lengths) |-> Filler(lengths[k])])

\* C22: is_minified_file is true exactly when the language is JavaScript,
\* the content has a line and the average line length, as a rational
\* number, exceeds 110.
C22_RationalAverage ==
    Asked("is_minified_file") =>
        (genOut <=> /\ genCall.language = "JavaScript"
                    /\ Len(genCall.lengths) >= 1
                    /\ Sum(genCall.lengths) > 110 * Len(genCall.lengths))

\* what is computed: the quotient of the total length by the number of
\* lines is rounded down before it is compared, so the average has to
\* reach 111
MinifiedRoundedAverage ==
    Asked("is_minified_file") =>
        (genOut <=> /\ genCall.language = "JavaScript"
                    /\ Len(genCall.lengths) >= 1
                    /\ Sum(genCall.lengths) >= 111 * Len(genCall.lengths))

----------------------------------------------------------------------------
(* get_lines_to_ignore: what each line may change, and how often *)

\* the line was written as a directive the language recognises
WrittenDirective(l, language) ==
    \/ /\ l.kind # "plain"
       /\ l.word \in { NoDdSa, DatadogDisable }
       /\ l.lead \in RecognisedLeads(language)
    \/ language = "Json" /\ l = PlainLine(Sentinel)

\* the file with its first line replaced by a line of code, and the file
\* cut after its first line
WithoutFirst(src) == << PlainLine(<< "x" >>) >> \o Tail(src)
FirstOnly(src) == << src[1] >>

TextOf(src) == JoinNewline([k \in 1..Len(src) |-> Render(src[k])])

\* C26: only line 1 can change ignore_file and only lines N > 1 the line
\* maps: a directive on a line N > 1 leaves ignore_file as line 1 alone
\* makes it, a directive on line 1 adds no entry to lines_to_ignore or
\* lines_to_ignore_per_rule, and ignore_file is AllRules iff line 1 holds
\* a disabling pattern and no identifier, SomeRules otherwise, with an
\* empty list when line 1 is not a directive.
C26_Frame ==
    Scanned =>
        LET line1 == anInput.src[1]
            directive == WrittenDirective(line1, anInput.language)
            alone == get_lines_to_ignore(TextOf(FirstOnly(anInput.src)),
                                         anInput.language)
            rest == get_lines_to_ignore(TextOf(WithoutFirst(anInput.src)),
                                        anInput.language)
        IN  /\ anLines.ignore_file = alone.ignore_file
            /\ anLines.lines_to_ignore = rest.lines_to_ignore
            /\ anLines.lines_to_ignore_per_rule = rest.lines_to_ignore_per_rule
            /\ 2 \notin Elems(anLines.lines_to_ignore)
            /\ 2 \notin DOMAIN anLines.lines_to_ignore_per_rule
            /\ alone.lines_to_ignore = << >>
            /\ alone.lines_to_ignore_per_rule = << >>
            /\ rest.ignore_file = SomeRules(<< >>)
            /\ anLines.ignore_file = AllRules <=>
                   (directive /\ line1.tail.ids = << >>)
            /\ anLines.ignore_file # AllRules =>
                   anLines.ignore_file.kind = "SomeRules"
            /\ ~directive => anLines.ignore_file = SomeRules(<< >>)

\* a bare directive on line 1, a directive naming rules on line 2
C26_Witness ==
    /\ Scanned
    /\ anInput.language = "Python"
    /\ anInput.src = << Directive(<< "#" >>, NoDdSa, TailBare),
                        Directive(<< "#" >>, DatadogDisable, TailColon) >>
    /\ anLines.ignore_file = AllRules
    /\ anLines.lines_to_ignore = << >>
    /\ DOMAIN anLines.lines_to_ignore_per_rule = { 3 }

\* number of times v occurs in a list
Occurrences(list, v) == Cardinality({ k \in 1..Len(list) : list[k] = v })

\* number of disabling patterns of the language written on a line
PatternsWritten(l, language) ==
    IF ~WrittenDirective(l, language) THEN 0
    ELSE IF l.kind = "two" THEN 2 ELSE 1

\* C27 as stated: a directive line contributes once however many
\* disabling patterns it holds: lines_to_ignore holds each line number at
\* most once, and the SomeRules list holds each identifier once per
\* occurrence on line 1.
C27_OncePerLine ==
    Scanned =>
        /\ \A L \in Elems(anLines.lines_to_ignore) :
               Occurrences(anLines.lines_to_ignore, L) = 1
        /\ ( WrittenDirective(anInput.src[1], anInput.language)
             /\ anInput.src[1].tail.ids # << >> )
               => anLines.ignore_file = SomeRules(anInput.src[1].tail.ids)

\* C27: a directive line contributes once per disabling pattern of the
\* language it holds: lines_to_ignore is a list holding N + 1 once per
\* pattern found on a bare line N > 1, the SomeRules list holds the
\* identifiers of line 1 once per pattern found on it, and
\* lines_to_ignore_per_rule keeps one entry per line.
C27_OncePerPattern ==
    Scanned =>
        /\ \A N \in 2..Len(anInput.src) :
               Occurrences(anLines.lines_to_ignore, N + 1) =
                   IF anInput.src[N].tail.ids = << >>
                   THEN PatternsWritten(anInput.src[N], anInput.language)
                   ELSE 0
        /\ \A N \in NamingLines :
               anLines.lines_to_ignore_per_rule[N + 1] = anInput.src[N].tail.ids
        /\ ( WrittenDirective(anInput.src[1], anInput.language)
             /\ anInput.src[1].tail.ids # << >> )
               => anLines.ignore_file =
                      SomeRules(Repeat(anInput.src[1].tail.ids,
                                       PatternsWritten(anInput.src[1],
                                                       anInput.language)))

\* `#no-dd-sa #datadog-disable` on line 2 records line 3 twice
C27_Witness ==
    /\ Scanned
    /\ anInput.language = "Python"
    /\ anInput.src = << TwoMarkers, TwoMarkersBare >>
    /\ anLines.lines_to_ignore = << 3, 3 >>
    /\ anLines.ignore_file = SomeRules(<< RuleR1, RuleR1 >>)

\* C28: whether a line is recognised as a suppression directive does not
\* change when a space or a tab is inserted anywhere in the line or
\* deleted from it, between the comment symbol and the marker and before
\* the comment symbol in particular; a marker written in another letter
\* case is not recognised.
C28_Whitespace ==
    Scanned =>
        LET N == Len(anInput.src)
        IN  Contributes(N) <=> WrittenDirective(anInput.src[N], anInput.language)

\* a tab put inside the comment symbol of `//no-dd-sa rs/r1 rs/r2` on
\* line 2 of a Java file
C28_Witness ==
    /\ Scanned
    /\ anInput.language = "Java"
    /\ anInput.src = << PlainLine(<< "x" >>),
                        Directive(<< "/", "/" >>, NoDdSa, TailSpaces) >>
    /\ anInput.edit = [op |-> "insert", at |-> 2, ch |-> "\t"]
    /\ 3 \in DOMAIN anLines.lines_to_ignore_per_rule

\* the deadline fixed when the watchdog was armed
Deadline == wdStart + JAVASCRIPT_EXECUTION_TIMEOUT

\* C24: the watchdog requests termination only at a wakeup at which more
\* than the full budget has elapsed since it was armed; a wakeup within
\* the budget that finds the done flag unset parks again, for exactly the
\* time that was left to the original deadline when the wakeup read the
\* clock, and a wakeup within the budget parks again in no other case.
C24_Deadline ==
    [][ /\ (terminating' /\ ~terminating)
            => /\ wd = "woken"
               /\ wdStart + elapsed > Deadline
               /\ clock > Deadline
        /\ (wd = "woken" /\ wd' # "woken")
            => /\ wd' = "parked"
                   <=> (wdStart + elapsed <= Deadline /\ ~done_flag)
               /\ wd' = "parked"
                   => timeout_remaining' = Deadline - (wdStart + elapsed)
      ]_vars

\* woken half way with the script still running, the watchdog is parked
\* again for the second half of the budget
C24_Witness ==
    /\ wd = "parked"
    /\ pc = "running"
    /\ ~done_flag
    /\ elapsed = TickMs
    /\ timeout_remaining = JAVASCRIPT_EXECUTION_TIMEOUT - TickMs

\* C23: an invocation is reported as a timeout exactly when the watchdog
\* requested termination before the script's run returned: once the run
\* has returned by itself and the done flag is stored with no termination
\* requested, the watchdog does not decide for a timeout.
C23_NoTimeoutOnceDone ==
    [][ (/\ pc \in {"stored", "join"}
         /\ done_flag
         /\ run.outcome \in {"value", "exception"}
         /\ ~terminating
         /\ ~timed_out)
            => ~timed_out' ]_vars

\* the run returned within the budget and was reported as a timeout
RunDiscarded ==
    /\ Returned
    /\ run.outcome = "value"
    /\ RunElapsed < JAVASCRIPT_EXECUTION_TIMEOUT
    /\ stellaAllErrors # << >>
    /\ res.err = "ExecutionTimeout"
    /\ result.violations = << >>

\* C25: an invocation that started the watchdog returns, whichever way
\* the store of the done flag, the unpark and the watchdog's park_timeout
\* interleave: the watchdog leaves its loop and join completes; when the
\* invocation has returned its watchdog thread has ended.
C25_WatchdogJoins ==
    /\ [](pc = "idle" => wd \in {"none", "exited"})
    /\ (wd \in {"spawned", "parked", "woken"}) ~> (pc = "idle" /\ wd = "exited")

\* the watchdog was armed only after the script's run had ended: done flag
\* and unpark token were there before its first park_timeout, and the
\* invocation has returned
C25_Witness ==
    /\ Returned
    /\ wd = "exited"
    /\ run.outcome = "value"
    /\ wdStart > run.at
    /\ ~timed_out

\* the script built from the template has run
Visited == tplPc = "returned"

\* the value a rule reads under `key` of the context of a visited node:
\* the file context's when it has the key, else the node's own
Overriding(node, file_context, key) ==
    IF key \in DOMAIN file_context THEN file_context[key]
    ELSE IF key \in DOMAIN node.context THEN node.context[key]
    ELSE None

\* C29: in one rule execution visit is called once per MatchNode, in the
\* order of the matches (up to the node on which it throws, if it does),
\* with the filename and with the node whose context holds the keys of the
\* node and of the file context, the file context's value where both have
\* the key; its third argument is that context's `code`. Without a match
\* visit is not called and the rule has no violation and no console line.
C29_VisitPerNode ==
    Visited =>
        LET nodes == tplCall.nodes
            calls == tplOut.calls
        IN  /\ Len(calls) <= Len(nodes)
            /\ ~tplOut.threw => Len(calls) = Len(nodes)
            /\ tplOut.threw
                   => /\ calls # << >>
                      /\ nodes[Len(calls)].capture = tplCall.throws_on
            /\ \A k \in 1..Len(calls) :
                   /\ calls[k].node.capture = nodes[k].capture
                   /\ k < Len(calls) => nodes[k].capture # tplCall.throws_on
                   /\ calls[k].filename = tplCall.filename
                   /\ DOMAIN calls[k].node.context
                          = DOMAIN nodes[k].context \cup DOMAIN tplCall.file_context
                   /\ \A key \in ContextKeys :
                          Member(calls[k].node.context, key)
                              = Overriding(nodes[k], tplCall.file_context, key)
                   /\ calls[k].code
                          = Overriding(nodes[k], tplCall.file_context, "code")
            /\ nodes = << >>
                   => /\ calls = << >>
                      /\ tplOut.violations = << >>
                      /\ tplOut.lines = << >>

\* two matches whose contexts have `imports` of their own, and a file
\* context with `imports`: visit sees n2 then n1, each with the file's
\* `imports` and its own `code`
C29_Witness ==
    /\ Visited
    /\ tplCall.file_context = [key \in {"imports"} |-> "F"]
    /\ tplCall.throws_on = None
    /\ Len(tplCall.nodes) = 2
    /\ tplCall.nodes[1] = [capture |-> "n2",
                           context |-> [key \in ContextKeys |-> "a"]]
    /\ tplCall.nodes[2] = [capture |-> "n1",
                           context |-> [key \in ContextKeys |-> "b"]]
    /\ tplOut.calls[1].node.capture = "n2"
    /\ tplOut.calls[1].node.context.imports = "F"
    /\ tplOut.calls[1].code = "a"
    /\ tplOut.calls[2].node.capture = "n1"
    /\ tplOut.calls[2].code = "b"
    /\ tplOut.violations = << "n2", "n1" >>

\* no match: visit was not called
NoMatchNoVisit ==
    /\ Visited
    /\ tplCall.nodes = << >>
    /\ tplCall.file_context # << >>
    /\ tplOut = NoCalls

====
